---- MODULE Spec2Model ----
(***************************************************************************)
(* State-machine model of the TMEPT two-pass assembler (tools/tmept_asm.py) *)
(* preprocessor -> pass 1 (layout) -> symbol merge -> pass 2 (encode) ->    *)
(* binary writer.                                                           *)
(*                                                                          *)
(* Operand strings are modelled as tokens [k, s, v, h]:                     *)
(*   k = "reg"  text "R<v>"        (matches [Rr]\d+)                        *)
(*   k = "num"  integer literal v                                           *)
(*   k = "sym"  identifier s                                                *)
(*   k = "mar"  text "[MAR]"                                                *)
(*   k = "par"  text "\<s>"        (macro parameter reference)              *)
(*   k = "str"  text "<s>" in double quotes (.include path)                 *)
(*   k = "lonum", "losym", "loreg", "lobad"  text "lo(...)" around a token  *)
(*   h          TRUE when the text carries a leading '#'                    *)
(* Source lines are records [label, mn, ops]; label "" and mn "" stand for  *)
(* Python's None.                                                           *)
(***************************************************************************)
EXTENDS Integers, Sequences, FiniteSets, TLC

VARIABLES
    predefines,   \* caller-supplied defines (-D / asm(src, defines))
    src,          \* raw lines of the input, comment-stripped and non-empty
    phase,        \* position of the driver in the pipeline
    err,          \* kind of the AsmError raised, "" while none
    pp_i,         \* Preprocessor._process_lines: index of the next raw line
    pp_defines,   \* Preprocessor.defines
    out,          \* Preprocessor._process_lines: out
    p1_i,         \* pass1: index of the next source line
    symbols,      \* pass1 / pass2: symbols
    frozen,       \* pass1: _frozen
    located,      \* pass1: located, sequence of [sl, addr]
    lc,           \* pass1: lc
    p2_i,         \* pass2: index of the next located entry
    memory,       \* pass2: memory, address -> byte
    listing,      \* pass2: listing, sequence of [addr, data, sl]
    written,      \* TRUE once write_binary has written the output file
    image,        \* write_binary: the output file, offset -> byte
    macros,       \* Preprocessor.macros, name -> [params, body]
    in_macro,     \* _process_lines: in_macro, [name, params] or NoMacro
    macro_body,   \* _process_lines: macro_body
    files,        \* the file system: absolute path -> raw lines
    include_stack,\* Preprocessor._include_stack
    cur_file,     \* _process_lines: filename of the running activation
    frames,       \* suspended _process_lines activations, [file, i, out]
    main_args,    \* main: args, the parsed command line [listing]
    listed,       \* TRUE once write_listing has been called
    status        \* exit status of the process, Running until it exits

vars == <<predefines, src, phase, err, pp_i, pp_defines, out, p1_i, symbols,
          frozen, located, lc, p2_i, memory, listing, written, image,
          macros, in_macro, macro_body, files, include_stack, cur_file,
          frames, main_args, listed, status>>

\* ---------------------------------------------------------------- bounds
MaxLines == 3
MaxOps == 3
MaxAddr == 4

\* ------------------------------------------------------------- constants
BYTE == 256
WORD == 65536
MAXREG == 15

\* ---------------------------------------------------------------- tokens
Reg(n) == [k |-> "reg", s |-> "", v |-> n, h |-> FALSE]
Num(n) == [k |-> "num", s |-> "", v |-> n, h |-> FALSE]
Sym(n) == [k |-> "sym", s |-> n, v |-> 0, h |-> FALSE]
Mar == [k |-> "mar", s |-> "", v |-> 0, h |-> FALSE]
Imm(t) == [t EXCEPT !.h = TRUE]
\* \name in a macro body or parameter list, "path" of an .include
Par(n) == [k |-> "par", s |-> n, v |-> 0, h |-> FALSE]
Str(p) == [k |-> "str", s |-> p, v |-> 0, h |-> FALSE]
\* the text lo(expr) built by LOADADDR around the operand text expr
Lo(t) ==
    IF t.h THEN [k |-> "lobad", s |-> "", v |-> 0, h |-> FALSE]
    ELSE IF t.k = "num" THEN [k |-> "lonum", s |-> "", v |-> t.v, h |-> FALSE]
    ELSE IF t.k = "sym" THEN [k |-> "losym", s |-> t.s, v |-> 0, h |-> FALSE]
    ELSE IF t.k = "reg" THEN [k |-> "loreg", s |-> "", v |-> t.v, h |-> FALSE]
    ELSE [k |-> "lobad", s |-> "", v |-> 0, h |-> FALSE]

Line(label, mn, ops) == [label |-> label, mn |-> mn, ops |-> ops]

EmptyMap == [x \in {} |-> 0]

Put(m, key, val) == [x \in DOMAIN m \cup {key} |-> IF x = key THEN val ELSE m[x]]

\* x & 0xFF and (x >> 8) & 0xFF on Python integers (two's complement, floor)
lo8(x) == x % BYTE
hi8(x) == (x \div BYTE) % BYTE

\* ----------------------------------------------------------- opcode table
OPCODES ==
    [ADD |-> <<0, "3std">>, ADC |-> <<1, "3std">>, SUB |-> <<2, "3std">>,
     SBC |-> <<3, "3std">>, AND |-> <<4, "3std">>, OR |-> <<5, "3std">>,
     NOR |-> <<6, "3std">>, NAD |-> <<7, "3std">>, XOR |-> <<8, "3std">>,
     CMP |-> <<9, "3std">>,
     ROL |-> <<10, "3std">>, SOL |-> <<11, "3std">>, SZL |-> <<12, "3std">>,
     RIL |-> <<13, "3std">>, ROR |-> <<14, "3std">>, SOR |-> <<15, "3std">>,
     SZR |-> <<16, "3std">>, RIR |-> <<17, "3std">>,
     INV |-> <<18, "3std">>, INH |-> <<19, "3std">>, INL |-> <<20, "3std">>,
     INE |-> <<21, "3std">>, INO |-> <<22, "3std">>, IEH |-> <<23, "3std">>,
     IOH |-> <<24, "3std">>, IEL |-> <<25, "3std">>, IOL |-> <<26, "3std">>,
     IFB |-> <<27, "3std">>, ILB |-> <<28, "3std">>, REV |-> <<29, "3std">>,
     RVL |-> <<30, "3std">>, RVH |-> <<31, "3std">>, RVE |-> <<32, "3std">>,
     RVO |-> <<33, "3std">>, RLE |-> <<34, "3std">>, RHE |-> <<35, "3std">>,
     RLO |-> <<36, "3std">>, RHO |-> <<37, "3std">>,
     JMP |-> <<38, "2reg">>, JMZ |-> <<39, "2reg">>, JMN |-> <<40, "2reg">>,
     JMG |-> <<41, "2reg">>, JMO |-> <<42, "2reg">>, JIE |-> <<43, "2reg">>,
     JIO |-> <<44, "2reg">>, JNE |-> <<56, "2reg">>, JGE |-> <<57, "2reg">>,
     JLE |-> <<58, "2reg">>,
     MOV |-> <<45, "3std">>, LMAR |-> <<46, "lmar">>, SMAR |-> <<47, "2reg">>,
     LOAD |-> <<48, "2reg">>, STOR |-> <<49, "2reg">>,
     IMAR |-> <<50, "2noreg">>, DMAR |-> <<51, "2noreg">>,
     ALE |-> <<52, "cmp4">>, DJN |-> <<53, "djn4">>, SLE |-> <<54, "cmp4">>,
     SJN |-> <<55, "cmp4">>,
     PUSH |-> <<59, "2reg">>, POP |-> <<60, "2reg">>, CALL |-> <<61, "2reg">>,
     RET |-> <<62, "2noreg">>]

SINGLE_OPERAND ==
    {"INV", "INH", "INL", "INE", "INO", "IEH", "IOH", "IEL", "IOL", "IFB",
     "ILB", "REV", "RVL", "RVH", "RVE", "RVO", "RLE", "RHE", "RLO", "RHO"}

\* ---------------------------------------------------- expression evaluator
\* eval_expr: an integer literal evaluates to itself, an identifier to its
\* binding, lo(x) to the low byte of x; a register-shaped text is an
\* identifier no model program binds, "[MAR]" evaluates to a list and a
\* leading '#', a backslash or a quote is a syntax error, all of which raise
\* AsmError.
Ok(val) == [ok |-> TRUE, v |-> val, err |-> ""]
Fail(kind) == [ok |-> FALSE, v |-> 0, err |-> kind]

eval_expr(t, syms) ==
    IF t.h THEN Fail("ExpressionSyntax")
    ELSE IF t.k = "num" THEN Ok(t.v)
    ELSE IF t.k = "sym" THEN
        IF t.s \in DOMAIN syms THEN Ok(syms[t.s]) ELSE Fail("UndefinedSymbol")
    ELSE IF t.k = "reg" THEN Fail("UndefinedSymbol")
    ELSE IF t.k = "lonum" THEN Ok(lo8(t.v))
    ELSE IF t.k = "losym" THEN
        IF t.s \in DOMAIN syms THEN Ok(lo8(syms[t.s]))
        ELSE Fail("UndefinedSymbol")
    ELSE IF t.k = "loreg" THEN Fail("UndefinedSymbol")
    ELSE Fail("ExpressionSyntax")

\* re.fullmatch(r'[Rr]\d+', tok)
IsRegisterText(t) == t.k = "reg" /\ ~t.h

parse_register(t) ==
    IF ~IsRegisterText(t) THEN Fail("OperandSyntax")
    ELSE IF t.v > MAXREG THEN Fail("RegisterRange")
    ELSE Ok(t.v)

\* ----------------------------------------------------- pass 1: line sizes
\* variant: an unknown mnemonic is taken to be a 2-byte instruction
instruction_sizeUnknown2(sl) ==
    IF sl.mn \in {"", ".ORG", ".EQU", ".RESETVEC", "__LOADADDR_HI__"} THEN 0
    ELSE IF sl.mn = ".BYTE" THEN Len(sl.ops)
    ELSE IF sl.mn = ".WORD" THEN Len(sl.ops) * 2
    ELSE IF sl.mn \notin DOMAIN OPCODES THEN 2
    ELSE LET enc == OPCODES[sl.mn][2] IN
         IF enc \in {"3std", "lmar"} THEN 3
         ELSE IF enc \in {"2reg", "2noreg"} THEN 2
         ELSE 4

instruction_size(sl) ==
    IF sl.mn = "" THEN 0
    ELSE IF sl.mn = ".ORG" THEN 0
    ELSE IF sl.mn = ".EQU" THEN 0
    ELSE IF sl.mn = ".BYTE" THEN Len(sl.ops)
    ELSE IF sl.mn = ".WORD" THEN Len(sl.ops) * 2
    ELSE IF sl.mn = ".RESETVEC" THEN 0
    ELSE IF sl.mn = "__LOADADDR_HI__" THEN 0
    ELSE IF sl.mn \notin DOMAIN OPCODES THEN 0
    ELSE LET enc == OPCODES[sl.mn][2] IN
         IF enc = "3std" THEN 3
         ELSE IF enc \in {"2reg", "2noreg"} THEN 2
         ELSE IF enc = "lmar" THEN 3
         ELSE IF enc \in {"cmp4", "djn4"} THEN 4
         ELSE 0

\* -------------------------------------------------------- pass 2: encoders
\* An encoder returns [err, data]: err is "" and data the bytes() it returns,
\* or err names the AsmError it raises.
Bytes(d) == [err |-> "", data |-> d]
Raise(kind) == [err |-> kind, data |-> <<>>]

\* variant: the mode field is shifted by 5 instead of 6
ModeByteShift5(mode, rd) == mode * 32 + rd * 4

\* (mode << 6) | (rd << 2): the two fields do not overlap for rd <= 15
ModeByte(mode, rd) == mode * 64 + rd * 4
\* (a << 4) | b for register numbers a, b <= 15
Nibbles(a, b) == a * 16 + b

encode_3std(opc, sl, syms) ==
    LET ops == sl.ops
        n == Len(ops)
    IN
    IF sl.mn = "MOV" /\ n = 2 /\ ops[2].k = "mar" /\ ~ops[2].h THEN
        LET rd == parse_register(ops[1]) IN
        IF ~rd.ok THEN Raise(rd.err)
        ELSE Bytes(<<opc, ModeByte(3, rd.v), 0>>)
    ELSE IF sl.mn \in SINGLE_OPERAND THEN
        IF n # 1 THEN Raise("OperandCount")
        ELSE LET rd == parse_register(ops[1]) IN
             IF ~rd.ok THEN Raise(rd.err)
             ELSE Bytes(<<opc, ModeByte(1, rd.v), Nibbles(rd.v, 0), 0>>)
    ELSE IF n = 3 THEN
        LET rd == parse_register(ops[1])
            rs1 == parse_register(ops[2])
            rs2 == parse_register(ops[3])
        IN
        IF ~rd.ok THEN Raise(rd.err)
        ELSE IF ~rs1.ok THEN Raise(rs1.err)
        ELSE IF ~rs2.ok THEN Raise(rs2.err)
        ELSE Bytes(<<opc, ModeByte(0, rd.v), Nibbles(rs1.v, rs2.v), 0>>)
    ELSE IF n = 2 THEN
        LET rd == parse_register(ops[1])
            \* op2[1:] if op2.startswith('#') else op2
            imm_str == [ops[2] EXCEPT !.h = FALSE]
        IN
        IF ~rd.ok THEN Raise(rd.err)
        ELSE IF IsRegisterText(imm_str) THEN
            LET rs == parse_register(imm_str) IN
            IF ~rs.ok THEN Raise(rs.err)
            ELSE Bytes(<<opc, ModeByte(1, rd.v), Nibbles(rd.v, rs.v), 0>>)
        ELSE
            LET imm == eval_expr(imm_str, syms) IN
            IF ~imm.ok THEN Raise(imm.err)
            ELSE Bytes(<<opc, ModeByte(2, rd.v), lo8(imm.v), 0>>)
    ELSE IF n = 1 THEN
        LET rd == parse_register(ops[1]) IN
        IF ~rd.ok THEN Raise(rd.err)
        ELSE Bytes(<<opc, ModeByte(1, rd.v), Nibbles(rd.v, rd.v), 0>>)
    ELSE Raise("OperandCount")

\* variant: the register field is shifted by 1 instead of 2
encode_2regShift1(opc, sl, syms) ==
    IF Len(sl.ops) # 1 THEN Raise("OperandCount")
    ELSE LET rn == parse_register(sl.ops[1]) IN
         IF ~rn.ok THEN Raise(rn.err)
         ELSE Bytes(<<opc, rn.v * 2>>)

encode_2reg(opc, sl, syms) ==
    IF Len(sl.ops) # 1 THEN Raise("OperandCount")
    ELSE LET rn == parse_register(sl.ops[1]) IN
         IF ~rn.ok THEN Raise(rn.err)
         ELSE Bytes(<<opc, rn.v * 4>>)

encode_2noreg(opc, sl, syms) ==
    IF Len(sl.ops) # 0 THEN Raise("OperandCount")
    ELSE Bytes(<<opc, 0>>)

\* variant: the address is emitted low byte first
encode_lmarLittle(opc, sl, syms) ==
    IF Len(sl.ops) # 1 THEN Raise("OperandCount")
    ELSE LET addr == eval_expr(sl.ops[1], syms) IN
         IF ~addr.ok THEN Raise(addr.err)
         ELSE IF addr.v < 0 \/ addr.v > WORD - 1 THEN Raise("AddressRange")
         ELSE Bytes(<<opc, lo8(addr.v), hi8(addr.v)>>)

encode_lmar(opc, sl, syms) ==
    IF Len(sl.ops) # 1 THEN Raise("OperandCount")
    ELSE LET addr == eval_expr(sl.ops[1], syms) IN
         IF ~addr.ok THEN Raise(addr.err)
         ELSE IF addr.v < 0 \/ addr.v > WORD - 1 THEN Raise("AddressRange")
         ELSE Bytes(<<opc, hi8(addr.v), lo8(addr.v)>>)

encode_cmp4(opc, sl, syms) ==
    IF Len(sl.ops) # 4 THEN Raise("OperandCount")
    ELSE LET rs1 == parse_register(sl.ops[1])
             rs2 == parse_register(sl.ops[2])
             rd == parse_register(sl.ops[3])
             rjmp == parse_register(sl.ops[4])
         IN
         IF ~rs1.ok THEN Raise(rs1.err)
         ELSE IF ~rs2.ok THEN Raise(rs2.err)
         ELSE IF ~rd.ok THEN Raise(rd.err)
         ELSE IF ~rjmp.ok THEN Raise(rjmp.err)
         ELSE Bytes(<<opc, Nibbles(rs1.v, rs2.v), Nibbles(rd.v, 0),
                      Nibbles(rjmp.v, 0)>>)

encode_djn4(opc, sl, syms) ==
    IF Len(sl.ops) # 2 THEN Raise("OperandCount")
    ELSE LET rs == parse_register(sl.ops[1])
             rjmp == parse_register(sl.ops[2])
         IN
         IF ~rs.ok THEN Raise(rs.err)
         ELSE IF ~rjmp.ok THEN Raise(rjmp.err)
         ELSE Bytes(<<opc, Nibbles(rs.v, 0), Nibbles(rs.v, 0),
                      Nibbles(rjmp.v, 0)>>)

\* ------------------------------------------------------ pass 2: directives
\* First operand of a data directive that makes encode_directive raise, 0 if
\* none: eval_expr fails, or (for .byte) the value is outside [-128, 255].
\* variant: the range check of .byte is skipped
ByteOpErrNoRange(t, syms) == eval_expr(t, syms).err

ByteOpErr(t, syms) ==
    LET v == eval_expr(t, syms) IN
    IF ~v.ok THEN v.err
    ELSE IF v.v < -128 \/ v.v > BYTE - 1 THEN "ValueRange"
    ELSE ""

WordOpErr(t, syms) == eval_expr(t, syms).err

\* the k-th byte (0 or 1) that .word appends for the masked value w
\* variant: high byte first
WordByteBig(w, k) == IF k = 0 THEN hi8(w) ELSE lo8(w)

WordByte(w, k) == IF k = 0 THEN lo8(w) ELSE hi8(w)

\* the two stores of .resetvec into the memory map
\* variant: the vector is stored high byte first
ResetVectorBig(mem, addr) ==
    Put(Put(mem, 65532, hi8(addr)), 65533, lo8(addr))

ResetVector(mem, addr) ==
    Put(Put(mem, 65532, lo8(addr)), 65533, hi8(addr))

FirstBad(errs) ==
    IF \E i \in DOMAIN errs : errs[i] # ""
    THEN CHOOSE i \in DOMAIN errs :
            errs[i] # "" /\ \A j \in DOMAIN errs : errs[j] # "" => i <= j
    ELSE 0

\* encode_directive returns (data, new_lc) and writes symbols (.equ) and
\* memory (.resetvec) in place.  Result: isdir FALSE stands for (None, None),
\* setlc tells whether new_lc is not None.
DirResult(data, setlc, new_lc, syms, mem) ==
    [err |-> "", isdir |-> TRUE, data |-> data, setlc |-> setlc,
     new_lc |-> new_lc, symbols |-> syms, memory |-> mem]
DirRaise(kind, syms, mem) ==
    [err |-> kind, isdir |-> TRUE, data |-> <<>>, setlc |-> FALSE,
     new_lc |-> 0, symbols |-> syms, memory |-> mem]
NotDirective(syms, mem) ==
    [err |-> "", isdir |-> FALSE, data |-> <<>>, setlc |-> FALSE,
     new_lc |-> 0, symbols |-> syms, memory |-> mem]

encode_directive(sl, syms, mem) ==
    LET ops == sl.ops IN
    IF sl.mn = ".ORG" THEN
        IF Len(ops) = 0 THEN DirRaise("IndexError", syms, mem)
        ELSE LET addr == eval_expr(ops[1], syms) IN
             IF ~addr.ok THEN DirRaise(addr.err, syms, mem)
             ELSE DirResult(<<>>, TRUE, addr.v, syms, mem)
    ELSE IF sl.mn = ".EQU" THEN
        IF Len(ops) < 2 THEN DirRaise("IndexError", syms, mem)
        ELSE LET val == eval_expr(ops[2], syms) IN
             IF ~val.ok THEN DirRaise(val.err, syms, mem)
             ELSE DirResult(<<>>, FALSE, 0, Put(syms, ops[1].s, val.v), mem)
    ELSE IF sl.mn = ".BYTE" THEN
        LET errs == [i \in DOMAIN ops |-> ByteOpErr(ops[i], syms)]
            bad == FirstBad(errs)
        IN
        IF bad # 0 THEN DirRaise(errs[bad], syms, mem)
        ELSE DirResult([i \in DOMAIN ops |-> lo8(eval_expr(ops[i], syms).v)],
                       FALSE, 0, syms, mem)
    ELSE IF sl.mn = ".WORD" THEN
        LET errs == [i \in DOMAIN ops |-> WordOpErr(ops[i], syms)]
            bad == FirstBad(errs)
            w(i) == eval_expr(ops[i], syms).v % WORD
        IN
        IF bad # 0 THEN DirRaise(errs[bad], syms, mem)
        ELSE DirResult([i \in 1..(2 * Len(ops)) |->
                           WordByte(w((i + 1) \div 2), (i + 1) % 2)],
                       FALSE, 0, syms, mem)
    ELSE IF sl.mn = ".RESETVEC" THEN
        IF Len(ops) # 1 THEN DirRaise("OperandCount", syms, mem)
        ELSE LET a == eval_expr(ops[1], syms) IN
             IF ~a.ok THEN DirRaise(a.err, syms, mem)
             ELSE LET addr == a.v % WORD IN
                  DirResult(<<>>, FALSE, 0, syms, ResetVector(mem, addr))
    ELSE IF sl.mn = "__LOADADDR_HI__" THEN
        IF Len(ops) < 2 THEN DirRaise("IndexError", syms, mem)
        ELSE DirResult(<<>>, FALSE, 0, syms, mem)
    ELSE NotDirective(syms, mem)

\* ----------------------------------------------------------------- pass 1
\* The loop body of pass1 on one source line.  st = [symbols, frozen,
\* located, lc, err]; err # "" is the AsmError that aborts the pass.
\* variant: the duplicate check is skipped
LabelBoundNever(label, syms) == FALSE

LabelBound(label, syms) == label \in DOMAIN syms

\* variant: .equ rebinds a predefined name
EquFrozenNever(name, frz) == FALSE

EquFrozen(name, frz) == name \in frz

Advance(addr, size) == addr + size

Pass1Abort(st, kind) == [st EXCEPT !.err = kind]

Pass1Mnemonic(st, sl) ==
    IF sl.mn = ".ORG" THEN
        IF Len(sl.ops) = 0 THEN Pass1Abort(st, "OrgNeedsAddress")
        ELSE LET v == eval_expr(sl.ops[1], st.symbols) IN
             IF v.ok THEN [st EXCEPT !.lc = v.v] ELSE st
    ELSE IF sl.mn = ".EQU" THEN
        IF Len(sl.ops) < 2 THEN Pass1Abort(st, "EquNeedsValue")
        ELSE LET name == sl.ops[1].s IN
             IF EquFrozen(name, st.frozen) THEN st
             ELSE LET val == eval_expr(sl.ops[2], st.symbols) IN
                  IF val.ok
                  THEN [st EXCEPT !.symbols = Put(st.symbols, name, val.v)]
                  ELSE st
    ELSE
        [st EXCEPT !.located = Append(st.located, [sl |-> sl, addr |-> st.lc]),
                   !.lc = Advance(st.lc, instruction_size(sl))]

Pass1Step(st, sl) ==
    IF sl.label # "" /\ LabelBound(sl.label, st.symbols)
    THEN Pass1Abort(st, "DuplicateLabel")
    ELSE LET bound == IF sl.label # ""
                      THEN [st EXCEPT !.symbols = Put(st.symbols, sl.label, st.lc)]
                      ELSE st
         IN
         IF sl.mn # "" THEN Pass1Mnemonic(bound, sl)
         ELSE [bound EXCEPT !.located =
                   Append(bound.located, [sl |-> sl, addr |-> bound.lc])]

\* pass1 before its loop: symbols seeded with the predefines, all frozen
Pass1Start(predefined) ==
    [symbols |-> predefined, frozen |-> DOMAIN predefined,
     located |-> <<>>, lc |-> 0, err |-> ""]

RECURSIVE Pass1Loop(_, _, _)
Pass1Loop(st, lines, i) ==
    IF i > Len(lines) \/ st.err # "" THEN st
    ELSE Pass1Loop(Pass1Step(st, lines[i]), lines, i + 1)

pass1(lines, predefined) == Pass1Loop(Pass1Start(predefined), lines, 1)

\* ----------------------------------------------------------------- pass 2
\* pass2 before its main loop: re-evaluation of the .equ lines found in
\* located, skipping the names that are bound but are not .equ names.
IsEquEntry(e) == e.sl.mn = ".EQU" /\ Len(e.sl.ops) >= 2

EquNames(loc) == {loc[i].sl.ops[1].s : i \in {j \in DOMAIN loc : IsEquEntry(loc[j])}}

RECURSIVE ResolveEquLoop(_, _, _, _)
ResolveEquLoop(loc, i, syms, predefined) ==
    IF i > Len(loc) THEN syms
    ELSE LET e == loc[i] IN
         IF ~IsEquEntry(e) \/ e.sl.ops[1].s \in predefined
         THEN ResolveEquLoop(loc, i + 1, syms, predefined)
         ELSE LET val == eval_expr(e.sl.ops[2], syms) IN
              ResolveEquLoop(loc, i + 1,
                             IF val.ok THEN Put(syms, e.sl.ops[1].s, val.v)
                             ELSE syms,
                             predefined)

Pass2ResolveEqu(loc, syms) ==
    ResolveEquLoop(loc, 1, syms, DOMAIN syms \ EquNames(loc))

\* for i, b in enumerate(data): memory[lc + i] = b
Store(mem, a, data) ==
    [x \in DOMAIN mem \cup {a + i - 1 : i \in DOMAIN data} |->
        IF x >= a /\ x < a + Len(data) THEN data[x - a + 1] ELSE mem[x]]

Encode(opc, enc, sl, syms) ==
    IF enc = "3std" THEN encode_3std(opc, sl, syms)
    ELSE IF enc = "2reg" THEN encode_2reg(opc, sl, syms)
    ELSE IF enc = "2noreg" THEN encode_2noreg(opc, sl, syms)
    ELSE IF enc = "lmar" THEN encode_lmar(opc, sl, syms)
    ELSE IF enc = "cmp4" THEN encode_cmp4(opc, sl, syms)
    ELSE IF enc = "djn4" THEN encode_djn4(opc, sl, syms)
    ELSE Raise("Internal")

\* The main loop body of pass2 on one located entry.  st = [symbols, memory,
\* listing, err].
Pass2Step(st, e) ==
    LET sl == e.sl
        at == e.addr
    IN
    IF sl.mn = "" THEN
        [st EXCEPT !.listing = Append(st.listing,
                                      [addr |-> at, data |-> <<>>, sl |-> sl])]
    ELSE
        LET dir == encode_directive(sl, st.symbols, st.memory) IN
        IF dir.err # "" THEN [st EXCEPT !.err = dir.err]
        ELSE IF dir.isdir THEN
            [st EXCEPT !.symbols = dir.symbols,
                       !.memory = Store(dir.memory, at, dir.data),
                       !.listing = Append(st.listing,
                                 [addr |-> at, data |-> dir.data, sl |-> sl])]
        ELSE IF sl.mn \notin DOMAIN OPCODES
        THEN [st EXCEPT !.err = "UnknownMnemonic"]
        ELSE LET r == Encode(OPCODES[sl.mn][1], OPCODES[sl.mn][2], sl,
                             st.symbols)
             IN
             IF r.err # "" THEN [st EXCEPT !.err = r.err]
             ELSE [st EXCEPT !.memory = Store(st.memory, at, r.data),
                             !.listing = Append(st.listing,
                                 [addr |-> at, data |-> r.data, sl |-> sl])]

Pass2Start(loc, syms) ==
    [symbols |-> Pass2ResolveEqu(loc, syms), memory |-> EmptyMap,
     listing |-> <<>>, err |-> ""]

RECURSIVE Pass2Loop(_, _, _)
Pass2Loop(st, loc, i) ==
    IF i > Len(loc) \/ st.err # "" THEN st
    ELSE Pass2Loop(Pass2Step(st, loc[i]), loc, i + 1)

pass2(loc, syms) == Pass2Loop(Pass2Start(loc, syms), loc, 1)

\* ---------------------------------------------------------- binary writer
Max(S) == CHOOSE x \in S : \A y \in S : y <= x

\* variant: the image ends one byte early
ImageSizeShort(mem) == Max(DOMAIN mem)

\* size = max(memory.keys()) + 1
ImageSize(mem) == Max(DOMAIN mem) + 1

\* image[addr]: a negative index counts from the end of the bytearray
Slot(addr, size) == IF addr >= 0 THEN addr ELSE size + addr

\* bytearray(size) then image[addr] = byte for every item.  Two keys can
\* share a slot only when one of them is negative; the later item of the
\* dict wins, which the address -> byte map does not record, so negWins is
\* the set of slots where the negative key is taken to be the later one.
write_binary(mem, negWins) ==
    IF DOMAIN mem = {} THEN <<>>
    ELSE LET size == ImageSize(mem) IN
         [k \in 0..(size - 1) |->
            IF k \in DOMAIN mem /\ ~((k - size) \in DOMAIN mem /\ k \in negWins)
            THEN mem[k]
            ELSE IF (k - size) \in DOMAIN mem THEN mem[k - size]
            ELSE 0]

\* write_binary raises (IndexError / ValueError) when a negative key falls
\* before the start of the bytearray
WriteRaises(mem) ==
    /\ DOMAIN mem # {}
    /\ \E a \in DOMAIN mem : Slot(a, ImageSize(mem)) < 0

SharedSlots(mem) ==
    IF DOMAIN mem = {} THEN {}
    ELSE {k \in DOMAIN mem : k >= 0 /\ (k - ImageSize(mem)) \in DOMAIN mem}

\* ------------------------------------------------------------ preprocessor
\* A path is the sequence of its components and the working directory is
\* the root <<>>.  SplitPath is the split of a path text at '/'.
SplitPath ==
    ("main" :> <<"main">>) @@ ("a" :> <<"a">>) @@ ("b" :> <<"b">>) @@
    ("c" :> <<"c">>) @@ ("sub/c" :> <<"sub", "c">>) @@
    ("../a" :> <<"..", "a">>) @@ ("sub/../a" :> <<"sub", "..", "a">>) @@
    ("../main" :> <<"..", "main">>) @@ ("none" :> <<"none">>)

\* filename of process_string
StringName == <<"<string>">>

Front(q) == SubSeq(q, 1, Len(q) - 1)
Range(q) == {q[i] : i \in DOMAIN q}

\* os.path.dirname, os.path.join on a relative path, os.path.abspath
dirname(path) == Front(path)
join(dir, rel) == dir \o rel

RECURSIVE NormPath(_, _, _)
NormPath(path, i, acc) ==
    IF i > Len(path) THEN acc
    ELSE IF path[i] = ".."
         THEN NormPath(path, i + 1, IF acc = <<>> THEN acc ELSE Front(acc))
         ELSE NormPath(path, i + 1, Append(acc, path[i]))

abspath(path) == NormPath(path, 1, <<>>)

\* self._include_stack.append(abs_path)
\* variant: the path is put at the bottom of the stack
PushStackBottom(stack, path) == <<path>> \o stack

PushStack(stack, path) == Append(stack, path)

\* self._include_stack.pop()
\* variant: the path stays on the stack
PopStackKeep(stack) == stack

PopStack(stack) == Front(stack)

\* in_macro is None
NoMacro == [name |-> "", params |-> <<>>]

\* line.upper() == '.ENDM', upper.startswith('.MACRO'),
\* upper.startswith('.INCLUDE'): the directive is the whole start of the line
IsEndm(raw) == raw.label = "" /\ raw.mn = ".ENDM" /\ raw.ops = <<>>
IsMacroLine(raw) == raw.label = "" /\ raw.mn = ".MACRO"
IsIncludeLine(raw) == raw.label = "" /\ raw.mn = ".INCLUDE"

\* parameter names of a .macro line, leading backslashes stripped
MacroParams(raw) == [i \in 1..(Len(raw.ops) - 1) |-> raw.ops[i + 1].s]

\* NAME = expr is rewritten to .equ NAME, expr (raw lines of that form carry
\* the mnemonic "=" and the operands <<NAME, expr>>).
RewriteAssign(raw) ==
    IF raw.mn = "=" THEN Line("", ".EQU", raw.ops) ELSE raw

\* The .equ regex captures NAME (\w+) and the whole rest of the line as the
\* expression; with more than two operands the rest is a tuple, which
\* int() rejects.
EagerEqu(sl, defines) ==
    IF sl.mn = ".EQU" /\ Len(sl.ops) >= 2 /\ ~sl.ops[1].h
       /\ sl.ops[1].k \in {"sym", "num", "reg"}
    THEN LET val == IF Len(sl.ops) = 2 THEN eval_expr(sl.ops[2], defines)
                    ELSE Fail("ExpressionSyntax")
         IN IF val.ok THEN Put(defines, sl.ops[1].s, val.v) ELSE defines
    ELSE defines

\* One (param, arg) round of _expand_macro on an operand text: \param is
\* replaced, then the bare word param.  A '#' in front of the replaced text
\* stays in front of the argument.
SubstParam(t, param, arg) ==
    IF t.k \in {"sym", "par"} /\ t.s = param
    THEN [arg EXCEPT !.h = t.h \/ arg.h]
    ELSE t

\* for param, arg in zip(params, args): each round rewrites the text left by
\* the rounds before it
RECURSIVE SubstAll(_, _, _, _)
SubstAll(t, params, args, i) ==
    IF i > Len(params) THEN t
    ELSE SubstAll(SubstParam(t, params[i], args[i]), params, args, i + 1)

\* if result == [] and sl.label: sub.label = sl.label
\* variant: the invocation's label is not carried
CarryLabelNone(sub, i, label) == sub

CarryLabel(sub, i, label) ==
    IF i = 1 /\ label # "" THEN [sub EXCEPT !.label = label] ELSE sub

\* _expand_macro: [err, lines].  The expanded text of each body line is
\* parsed and appended; it is not looked up in the macro tables again.
expand_macro(sl, mtab) ==
    LET params == mtab[sl.mn].params
        body == mtab[sl.mn].body
        args == sl.ops
        sub(i) == [body[i] EXCEPT !.ops =
                     [j \in DOMAIN body[i].ops |->
                        SubstAll(body[i].ops[j], params, args, 1)]]
    IN
    IF Len(args) # Len(params) THEN [err |-> "MacroArity", lines |-> <<>>]
    ELSE [err |-> "",
          lines |-> [i \in DOMAIN body |-> CarryLabel(sub(i), i, sl.label)]]

BUILTINS == {"LOADADDR", "JMP_L", "CALL_L"}

\* the LOADADDR branch of _expand_builtin
\* variant: the label is put on the ADD line
LoadaddrLinesLabelAdd(label, rn, expr) ==
    <<Line("", "XOR", <<rn, rn, rn>>),
      Line(label, "ADD", <<rn, Imm(Lo(expr))>>),
      Line("", "__LOADADDR_HI__", <<rn, expr>>)>>

LoadaddrLines(label, rn, expr) ==
    <<Line(label, "XOR", <<rn, rn, rn>>),
      Line("", "ADD", <<rn, Imm(Lo(expr))>>),
      Line("", "__LOADADDR_HI__", <<rn, expr>>)>>

expand_builtin(sl) ==
    IF Len(sl.ops) # 2 THEN [err |-> "BuiltinOperands", lines |-> <<>>]
    ELSE LET la == LoadaddrLines(sl.label, sl.ops[1], sl.ops[2]) IN
         [err |-> "",
          lines |-> IF sl.mn = "LOADADDR" THEN la
                    ELSE IF sl.mn = "JMP_L"
                    THEN Append(la, Line("", "JMP", <<sl.ops[1]>>))
                    ELSE Append(la, Line("", "CALL", <<sl.ops[1]>>))]

\* Preprocessor state shared by all activations (defines, macros, stack)
\* with the locals of one _process_lines activation (in_macro, macro_body,
\* out); err is the AsmError raised, call the path of a pending
\* process_file call (<<>> if none).
PPState(defines, mtab, stack) ==
    [defines |-> defines, macros |-> mtab, stack |-> stack,
     in_macro |-> NoMacro, macro_body |-> <<>>, out |-> <<>>,
     err |-> "", call |-> <<>>]

PPRaise(st, kind) == [st EXCEPT !.err = kind]

\* The loop body of _process_lines on one raw line of file filename.
PreprocessStep(st, raw, filename) ==
    IF st.in_macro # NoMacro THEN
        IF IsEndm(raw)
        THEN [st EXCEPT !.macros = Put(st.macros, st.in_macro.name,
                                       [params |-> st.in_macro.params,
                                        body |-> st.macro_body]),
                        !.in_macro = NoMacro,
                        !.macro_body = <<>>]
        ELSE [st EXCEPT !.macro_body = Append(st.macro_body, raw)]
    ELSE IF IsMacroLine(raw) THEN
        IF raw.ops = <<>> THEN PPRaise(st, "MacroName")
        ELSE [st EXCEPT !.in_macro = [name |-> raw.ops[1].s,
                                      params |-> MacroParams(raw)],
                        !.macro_body = <<>>]
    ELSE IF IsIncludeLine(raw) THEN
        IF Len(raw.ops) # 1 \/ raw.ops[1].k # "str"
        THEN PPRaise(st, "MalformedInclude")
        ELSE [st EXCEPT !.call =
                 <<join(dirname(filename), SplitPath[raw.ops[1].s])>>]
    ELSE
        LET sl == RewriteAssign(raw)
            st1 == [st EXCEPT !.defines = EagerEqu(sl, st.defines)]
        IN
        IF sl.mn # "" /\ sl.mn \in DOMAIN st.macros THEN
            LET x == expand_macro(sl, st.macros) IN
            IF x.err # "" THEN PPRaise(st1, x.err)
            ELSE [st1 EXCEPT !.out = st.out \o x.lines]
        ELSE IF sl.mn \in BUILTINS THEN
            LET x == expand_builtin(sl) IN
            IF x.err # "" THEN PPRaise(st1, x.err)
            ELSE [st1 EXCEPT !.out = st.out \o x.lines]
        ELSE [st1 EXCEPT !.out = Append(st.out, sl)]

\* process_file up to the call of _process_lines: the circular check, the
\* push and the open.  st.call holds the path.
OpenFile(st, fs) ==
    LET abs_path == abspath(st.call[1]) IN
    IF abs_path \in Range(st.stack) THEN PPRaise(st, "CircularInclude")
    ELSE IF abs_path \notin DOMAIN fs
    THEN [st EXCEPT !.stack = PushStack(st.stack, abs_path),
                    !.err = "CannotOpen"]
    ELSE [st EXCEPT !.stack = PushStack(st.stack, abs_path)]

\* the end of _process_lines
\* variant: an open macro body is not reported
EndOfLinesQuiet(st) == st

EndOfLines(st) ==
    IF st.in_macro # NoMacro THEN PPRaise(st, "UnterminatedMacro") ELSE st

\* _process_lines from raw line i on, with the process_file calls it makes
RECURSIVE PreprocessLoop(_, _, _, _, _)
PreprocessLoop(st, lines, i, filename, fs) ==
    IF i > Len(lines) THEN EndOfLines(st)
    ELSE
        LET s1 == PreprocessStep(st, lines[i], filename) IN
        IF s1.err # "" THEN s1
        ELSE IF s1.call = <<>>
        THEN PreprocessLoop(s1, lines, i + 1, filename, fs)
        ELSE
            LET opened == OpenFile(s1, fs)
                path == abspath(s1.call[1])
            IN
            IF opened.err # "" THEN opened
            ELSE
                LET r == PreprocessLoop(
                            PPState(opened.defines, opened.macros,
                                    opened.stack),
                            fs[path], 1, path, fs)
                IN
                IF r.err # "" THEN r
                ELSE PreprocessLoop(
                        [s1 EXCEPT !.defines = r.defines,
                                   !.macros = r.macros,
                                   !.stack = PopStack(r.stack),
                                   !.out = s1.out \o r.out,
                                   !.call = <<>>],
                        lines, i + 1, filename, fs)

process_string(lines, defines) ==
    PreprocessLoop(PPState(defines, EmptyMap, <<>>), lines, 1, StringName,
                   EmptyMap)

\* process_file(path) of a fresh Preprocessor on the file system fs
process_file(path, defines, fs) ==
    LET opened == OpenFile([PPState(defines, EmptyMap, <<>>)
                               EXCEPT !.call = <<path>>], fs)
        r == PreprocessLoop([opened EXCEPT !.call = <<>>],
                            fs[abspath(path)], 1, abspath(path), fs)
    IN
    IF opened.err # "" THEN opened
    ELSE IF r.err # "" THEN r
    ELSE [r EXCEPT !.stack = PopStack(r.stack)]

\* dict(pp.defines) merged into the pass-1 symbols: existing names are kept
MergeSeed(syms, seed) ==
    [k \in DOMAIN syms \cup DOMAIN seed |->
        IF k \in DOMAIN syms THEN syms[k] ELSE seed[k]]

\* The driver from source to memory map (asm() of the tests, the try block
\* of main): err is the AsmError raised by pass 1 or pass 2, "" if none.
asm(source, defines) ==
    LET pp == process_string(source, defines)
        p1 == pass1(pp.out, defines)
        p2 == pass2(p1.located, MergeSeed(p1.symbols, pp.defines))
    IN
    IF pp.err # "" THEN [err |-> pp.err, memory |-> EmptyMap]
    ELSE IF p1.err # "" THEN [err |-> p1.err, memory |-> EmptyMap]
    ELSE [err |-> p2.err, memory |-> p2.memory]

\* ----------------------------------------------------------------- actions
PassVars == <<p1_i, symbols, frozen, located, lc>>
EncVars == <<p2_i, memory, listing>>
FileVars == <<written, image>>
InputVars == <<predefines, src, files>>
PPVars == <<macros, in_macro, macro_body>>
IncVars == <<include_stack, cur_file, frames>>
ExitVars == <<main_args, listed, status>>

\* the process has not exited
Running == -1

\* command line without -l
NoListing == [listing |-> FALSE]

\* raw lines of the running _process_lines activation
CurLines == IF frames = <<>> THEN src ELSE files[cur_file]

PPNow ==
    [defines |-> pp_defines, macros |-> macros, stack |-> include_stack,
     in_macro |-> in_macro, macro_body |-> macro_body, out |-> out,
     err |-> "", call |-> <<>>]

\* Preprocessor._process_lines on the next raw line; on an .include line,
\* process_file up to its call of _process_lines on the included file
PreprocessLine ==
    /\ phase = "preprocess"
    /\ pp_i <= Len(CurLines)
    /\ LET s1 == PreprocessStep(PPNow, CurLines[pp_i], cur_file)
           st == IF s1.err = "" /\ s1.call # <<>> THEN OpenFile(s1, files)
                 ELSE s1
       IN
        /\ pp_defines' = st.defines
        /\ macros' = st.macros
        /\ include_stack' = st.stack
        /\ in_macro' = st.in_macro
        /\ macro_body' = st.macro_body
        /\ IF st.err # ""
           THEN /\ phase' = "error"
                /\ err' = st.err
                /\ UNCHANGED <<pp_i, out, cur_file, frames>>
           ELSE IF st.call # <<>>
           THEN /\ frames' = Append(frames, [file |-> cur_file,
                                             i |-> pp_i + 1, out |-> out])
                /\ cur_file' = abspath(st.call[1])
                /\ pp_i' = 1
                /\ out' = <<>>
                /\ UNCHANGED <<phase, err>>
           ELSE /\ out' = st.out
                /\ pp_i' = pp_i + 1
                /\ UNCHANGED <<phase, err, cur_file, frames>>
    /\ UNCHANGED <<InputVars, ExitVars, PassVars, EncVars, FileVars>>

\* the end of _process_lines on an included file: process_file pops the
\* stack and returns, and the including activation extends its out
IncludeReturn ==
    /\ phase = "preprocess"
    /\ frames # <<>>
    /\ pp_i > Len(CurLines)
    /\ IF EndOfLines(PPNow).err # ""
       THEN /\ phase' = "error"
            /\ err' = EndOfLines(PPNow).err
            /\ UNCHANGED <<pp_i, out, IncVars>>
       ELSE LET f == frames[Len(frames)] IN
            /\ out' = f.out \o out
            /\ pp_i' = f.i
            /\ cur_file' = f.file
            /\ frames' = Front(frames)
            /\ include_stack' = PopStack(include_stack)
            /\ UNCHANGED <<phase, err>>
    /\ UNCHANGED <<InputVars, ExitVars,
                   pp_defines, PPVars, PassVars, EncVars, FileVars>>

\* the end of the outermost _process_lines; the preprocessor returns and
\* the driver calls pass1(source_lines, predefined)
Pass1Begin ==
    /\ phase = "preprocess"
    /\ frames = <<>>
    /\ pp_i > Len(CurLines)
    /\ IF EndOfLines(PPNow).err # ""
       THEN /\ phase' = "error"
            /\ err' = EndOfLines(PPNow).err
            /\ UNCHANGED <<PassVars, include_stack>>
       ELSE /\ LET st == Pass1Start(predefines) IN
                /\ symbols' = st.symbols
                /\ frozen' = st.frozen
                /\ located' = st.located
                /\ lc' = st.lc
            /\ p1_i' = 1
            /\ phase' = "pass1"
            /\ include_stack' = IF cur_file = StringName THEN include_stack
                                ELSE PopStack(include_stack)
            /\ UNCHANGED err
    /\ UNCHANGED <<InputVars, ExitVars,
                   pp_i, pp_defines, out, PPVars, cur_file, frames,
                   EncVars, FileVars>>

\* one iteration of the pass1 loop
Pass1Line ==
    /\ phase = "pass1"
    /\ p1_i <= Len(out)
    /\ LET st == Pass1Step([symbols |-> symbols, frozen |-> frozen,
                            located |-> located, lc |-> lc, err |-> ""],
                           out[p1_i])
       IN
        IF st.err # ""
        THEN /\ phase' = "error"
             /\ err' = st.err
             /\ UNCHANGED PassVars
        ELSE /\ symbols' = st.symbols
             /\ frozen' = st.frozen
             /\ located' = st.located
             /\ lc' = st.lc
             /\ p1_i' = p1_i + 1
             /\ UNCHANGED <<phase, err>>
    /\ UNCHANGED <<InputVars, ExitVars,
                   PPVars, IncVars, pp_i, pp_defines, out, EncVars,
                   FileVars>>

\* pass1 returns; the driver merges the preprocessor's defines
MergeDefines ==
    /\ phase = "pass1"
    /\ p1_i > Len(out)
    /\ symbols' = MergeSeed(symbols, pp_defines)
    /\ phase' = "merged"
    /\ UNCHANGED <<InputVars, ExitVars,
                   PPVars, IncVars, err, pp_i, pp_defines, out,
                   p1_i, frozen, located, lc, EncVars, FileVars>>

\* pass2 up to its main loop
Pass2Begin ==
    /\ phase = "merged"
    /\ LET st == Pass2Start(located, symbols) IN
        /\ symbols' = st.symbols
        /\ memory' = st.memory
        /\ listing' = st.listing
    /\ p2_i' = 1
    /\ phase' = "pass2"
    /\ UNCHANGED <<InputVars, ExitVars,
                   PPVars, IncVars, err, pp_i, pp_defines, out,
                   p1_i, frozen, located, lc, FileVars>>

\* one iteration of the pass2 main loop
Pass2Line ==
    /\ phase = "pass2"
    /\ p2_i <= Len(located)
    /\ LET st == Pass2Step([symbols |-> symbols, memory |-> memory,
                            listing |-> listing, err |-> ""],
                           located[p2_i])
       IN
        IF st.err # ""
        THEN /\ phase' = "error"
             /\ err' = st.err
             /\ UNCHANGED <<symbols, EncVars>>
        ELSE /\ symbols' = st.symbols
             /\ memory' = st.memory
             /\ listing' = st.listing
             /\ p2_i' = p2_i + 1
             /\ UNCHANGED <<phase, err>>
    /\ UNCHANGED <<InputVars, ExitVars,
                   PPVars, IncVars, pp_i, pp_defines, out, p1_i,
                   frozen, located, lc, FileVars>>

\* pass2 returns; the driver calls write_binary(memory, out_path)
WriteBinary ==
    /\ phase = "pass2"
    /\ p2_i > Len(located)
    /\ IF WriteRaises(memory)
       THEN /\ phase' = "error"
            /\ err' = "IndexError"
            /\ UNCHANGED FileVars
       ELSE /\ \E negWins \in SUBSET SharedSlots(memory) :
                   image' = write_binary(memory, negWins)
            /\ written' = TRUE
            /\ phase' = "done"
            /\ UNCHANGED err
    /\ UNCHANGED <<InputVars, ExitVars,
                   PPVars, IncVars, pp_i, pp_defines, out, PassVars,
                   EncVars>>

\* write_listing(listing, symbols, args.listing, args.input), when -l is given
WriteListing ==
    /\ phase = "done"
    /\ main_args.listing
    /\ ~listed
    /\ listed' = TRUE
    /\ UNCHANGED <<InputVars, PPVars, IncVars, phase, err, pp_i, pp_defines,
                   out, PassVars, EncVars, FileVars, main_args, status>>

\* exit status: sys.exit(1) in the except clauses (and the interpreter's
\* status for an exception main does not catch), 0 when main returns
\* variant: the except clause exits with 0
ExitStatusZero(kind) == 0

ExitStatus(kind) == IF kind = "" THEN 0 ELSE 1

\* main returns after its outputs
ExitSuccess ==
    /\ phase = "done"
    /\ main_args.listing => listed
    /\ phase' = "exited"
    /\ status' = ExitStatus(err)
    /\ UNCHANGED <<InputVars, PPVars, IncVars, err, pp_i, pp_defines, out,
                   PassVars, EncVars, FileVars, main_args, listed>>

\* except AsmError: print the message, sys.exit(1)
ExitFailure ==
    /\ phase = "error"
    /\ phase' = "exited"
    /\ status' = ExitStatus(err)
    /\ UNCHANGED <<InputVars, PPVars, IncVars, err, pp_i, pp_defines, out,
                   PassVars, EncVars, FileVars, main_args, listed>>

Next ==
    \/ PreprocessLine
    \/ Pass1Begin
    \/ Pass1Line
    \/ MergeDefines
    \/ Pass2Begin
    \/ Pass2Line
    \/ WriteBinary

\* ------------------------------------------------------------------ inputs
RECURSIVE SeqsUpTo(_, _)
SeqsUpTo(S, n) ==
    IF n = 0 THEN {<<>>}
    ELSE LET shorter == SeqsUpTo(S, n - 1) IN
         shorter \cup {Append(q, x) : q \in {r \in shorter : Len(r) = n - 1},
                                      x \in S}

\* state of the driver before the preprocessor runs on (source, defines)
Start(source, defines) ==
    /\ predefines = defines
    /\ src = source
    /\ phase = "preprocess"
    /\ err = ""
    /\ pp_i = 1
    /\ pp_defines = defines
    /\ out = <<>>
    /\ p1_i = 0
    /\ symbols = EmptyMap
    /\ frozen = {}
    /\ located = <<>>
    /\ lc = 0
    /\ p2_i = 0
    /\ memory = EmptyMap
    /\ listing = <<>>
    /\ written = FALSE
    /\ image = <<>>
    /\ macros = EmptyMap
    /\ in_macro = NoMacro
    /\ macro_body = <<>>
    /\ files = EmptyMap
    /\ include_stack = <<>>
    /\ cur_file = StringName
    /\ frames = <<>>
    /\ main_args = NoListing
    /\ listed = FALSE
    /\ status = Running

\* state of the driver when process_file(main) has pushed and read the main
\* file of the file system fs
StartFile(fs, main, defines) ==
    /\ predefines = defines
    /\ src = fs[main]
    /\ phase = "preprocess"
    /\ err = ""
    /\ pp_i = 1
    /\ pp_defines = defines
    /\ out = <<>>
    /\ p1_i = 0
    /\ symbols = EmptyMap
    /\ frozen = {}
    /\ located = <<>>
    /\ lc = 0
    /\ p2_i = 0
    /\ memory = EmptyMap
    /\ listing = <<>>
    /\ written = FALSE
    /\ image = <<>>
    /\ macros = EmptyMap
    /\ in_macro = NoMacro
    /\ macro_body = <<>>
    /\ files = fs
    /\ include_stack = <<main>>
    /\ cur_file = main
    /\ frames = <<>>
    /\ main_args = NoListing
    /\ listed = FALSE
    /\ status = Running

\* programs about symbols: predefine N, label L, constant X
SymLines ==
    {Line("", ".EQU", <<Sym("N"), Num(5)>>),
     Line("", "=", <<Sym("X"), Num(1)>>),
     Line("", ".EQU", <<Sym("X"), Num(2)>>),
     Line("", ".EQU", <<Sym("X"), Sym("L")>>),
     Line("", "LMAR", <<Sym("L")>>),
     Line("", "LMAR", <<Sym("X")>>),
     Line("", "LMAR", <<Sym("N")>>),
     Line("L", "RET", <<>>),
     Line("L", "", <<>>),
     Line("N", "RET", <<>>),
     Line("", "ADD", <<Reg(1), Imm(Sym("N"))>>),
     Line("", "ADD", <<Reg(1), Sym("L")>>),
     Line("", ".ORG", <<Num(300)>>),
     Line("", ".ORG", <<Sym("L")>>),
     Line("", ".BYTE", <<Sym("N")>>),
     Line("", "JMP", <<Reg(1)>>)}

PredefineSets == {EmptyMap, [n \in {"N"} |-> 3]}

Init ==
    \E source \in SeqsUpTo(SymLines, MaxLines), defines \in PredefineSets :
        Start(source, defines)

Spec == Init /\ [][Next]_vars

\* programs of two .org-introduced sections of one instruction each
SectionOrgs == {0, 2, 3, 5, 300}

SectionLines ==
    {Line("", "ADD", <<Reg(1), Reg(2), Reg(3)>>),
     Line("", "JMP", <<Reg(1)>>),
     Line("", "RET", <<>>),
     Line("", "LMAR", <<Num(4660)>>),
     Line("", "MOV", <<Reg(1), Mar>>)}

InitSections ==
    \E a1 \in SectionOrgs, a2 \in SectionOrgs,
       i1 \in SectionLines, i2 \in SectionLines :
        Start(<<Line("", ".ORG", <<Num(a1)>>), i1,
                Line("", ".ORG", <<Num(a2)>>), i2>>, EmptyMap)

SpecSections == InitSections /\ [][Next]_vars

\* programs of one 3std or 2reg instruction after a .org, with N predefined
EncMnemonics == {m \in DOMAIN OPCODES : OPCODES[m][2] \in {"3std", "2reg"}}

EncTokens ==
    {Reg(2), Reg(15), Reg(16), Imm(Num(300)), Sym("N"), Mar}

EncOrgs == {0, 300}

InitEnc ==
    \E a \in EncOrgs, m \in EncMnemonics, ops \in SeqsUpTo(EncTokens, MaxOps) :
        Start(<<Line("", ".ORG", <<Num(a)>>), Line("", m, ops)>>,
              [n \in {"N"} |-> 513])

SpecEnc == InitEnc /\ [][Next]_vars

\* memory maps handed to write_binary: any map from 0..MaxAddr to bytes
MapBytes == {0, 1, 255}

MemoryMaps ==
    UNION {[D -> MapBytes] : D \in SUBSET (0..MaxAddr)}

InitWB ==
    /\ predefines = EmptyMap
    /\ src = <<>>
    /\ phase = "pass2"
    /\ err = ""
    /\ pp_i = 1
    /\ pp_defines = EmptyMap
    /\ out = <<>>
    /\ p1_i = 1
    /\ symbols = EmptyMap
    /\ frozen = {}
    /\ located = <<>>
    /\ lc = 0
    /\ p2_i = 1
    /\ memory \in MemoryMaps
    /\ listing = <<>>
    /\ written = FALSE
    /\ image = <<>>
    /\ macros = EmptyMap
    /\ in_macro = NoMacro
    /\ macro_body = <<>>
    /\ files = EmptyMap
    /\ include_stack = <<>>
    /\ cur_file = StringName
    /\ frames = <<>>
    /\ main_args = NoListing
    /\ listed = FALSE
    /\ status = Running

NextWB == WriteBinary

SpecWB == InitWB /\ [][NextWB]_vars

\* programs of LMAR and data directives with literal operands, in and out
\* of range
DataLines ==
    {Line("", ".ORG", <<Num(300)>>),
     Line("", "LMAR", <<Num(4660)>>),
     Line("", "LMAR", <<Num(65535)>>),
     Line("", "LMAR", <<Num(65536)>>),
     Line("", "LMAR", <<Num(-1)>>),
     Line("", ".WORD", <<Num(4660)>>),
     Line("", ".WORD", <<Num(-2), Num(65537)>>),
     Line("", ".BYTE", <<Num(255), Num(-128), Num(7)>>),
     Line("", ".BYTE", <<Num(7), Num(256)>>),
     Line("", ".BYTE", <<Num(-129)>>),
     Line("", ".BYTE", <<>>),
     Line("", "RET", <<>>)}

InitData ==
    \E source \in SeqsUpTo(DataLines, MaxLines) : Start(source, EmptyMap)

SpecData == InitData /\ [][Next]_vars

\* programs with .resetvec lines among lines that take space
ResetLines ==
    {Line("", ".RESETVEC", <<Num(512)>>),
     Line("", ".RESETVEC", <<Num(70196)>>),
     Line("", ".BYTE", <<Num(7)>>),
     Line("", "RET", <<>>),
     Line("", ".ORG", <<Num(300)>>)}

InitReset ==
    \E source \in SeqsUpTo(ResetLines, MaxLines) : Start(source, EmptyMap)

SpecReset == InitReset /\ [][Next]_vars

\* programs of one macro definition block followed by invocations of M
MacroLine(name, params) == Line("", ".MACRO", <<Sym(name)>> \o params)
EndmLine == Line("", ".ENDM", <<>>)

MacroDefs ==
    {<<MacroLine("M", <<Sym("a"), Sym("b")>>),
       Line("", "ADD", <<Sym("a"), Sym("b")>>), EndmLine>>,
     <<MacroLine("M", <<Par("a"), Par("b")>>),
       Line("", "ADD", <<Par("a"), Imm(Par("b"))>>), EndmLine>>,
     <<MacroLine("M", <<>>),
       Line("", "RET", <<>>), Line("", "LMAR", <<Num(7)>>), EndmLine>>,
     <<MacroLine("M", <<>>),
       Line("", ".ORG", <<Num(300)>>), Line("", "RET", <<>>), EndmLine>>,
     <<MacroLine("M", <<>>),
       Line("inner", "RET", <<>>), EndmLine>>,
     <<MacroLine("M", <<>>), EndmLine>>,
     <<MacroLine("IN", <<>>), Line("", "RET", <<>>), EndmLine,
       MacroLine("M", <<>>),
       Line("", "IN", <<>>), Line("", "JMP", <<Reg(1)>>), EndmLine>>,
     <<MacroLine("M", <<>>),
       Line("", "LOADADDR", <<Reg(1), Num(5)>>), EndmLine>>}

InvokeLines ==
    {Line("", "M", <<>>),
     Line("L", "M", <<>>),
     Line("", "M", <<Reg(1), Reg(2)>>),
     Line("L", "M", <<Sym("b"), Reg(1)>>),
     Line("", "M", <<Reg(1)>>),
     Line("", "RET", <<>>),
     Line("", ".EQU", <<Sym("L"), Num(7)>>)}

InitMacro ==
    \E defs \in MacroDefs, tail \in SeqsUpTo(InvokeLines, MaxLines) :
        Start(defs \o tail, EmptyMap)

SpecMacro == InitMacro /\ [][Next]_vars

\* programs of .macro and .endm lines in any order
BalanceLines ==
    {MacroLine("A", <<>>),
     MacroLine("B", <<>>),
     EndmLine,
     Line("", "RET", <<>>),
     Line("", "A", <<>>),
     Line("L", ".ENDM", <<>>)}

InitBalance ==
    \E source \in SeqsUpTo(BalanceLines, MaxLines) : Start(source, EmptyMap)

SpecBalance == InitBalance /\ [][Next]_vars

\* file systems of four files main, a, b, sub/c that include one another
Include(text) == Line("", ".INCLUDE", <<Str(text)>>)

MainLines == {Include("a"), Include("b"), Line("", "RET", <<>>)}
FileA == {<<>>, <<Include("b")>>, <<Include("sub/c")>>, <<Include("main")>>,
          <<Line("", "JMP", <<Reg(1)>>)>>}
FileB == {<<>>, <<Include("sub/../a")>>, <<Include("sub/c")>>}
FileC == {<<Line("", "RET", <<>>)>>, <<Include("../a")>>, <<Include("c")>>,
          <<Include("none")>>, <<MacroLine("A", <<>>)>>}

FileSystems ==
    {(<<"main">> :> m) @@ (<<"a">> :> a) @@ (<<"b">> :> b)
       @@ (<<"sub", "c">> :> c) :
         m \in SeqsUpTo(MainLines, MaxLines),
         a \in FileA, b \in FileB, c \in FileC}

InitInc == \E fs \in FileSystems : StartFile(fs, <<"main">>, EmptyMap)

NextInc == Next \/ IncludeReturn

\* the interpreter runs the driver to its end: every enabled step is taken
SpecInc == InitInc /\ [][NextInc]_vars /\ WF_vars(NextInc)

\* runs of the command-line driver, with and without -l, on a main file that
\* may include file a or a missing file
StartMain(fs, main, defines, listing_opt) ==
    /\ predefines = defines
    /\ src = fs[main]
    /\ phase = "preprocess"
    /\ err = ""
    /\ pp_i = 1
    /\ pp_defines = defines
    /\ out = <<>>
    /\ p1_i = 0
    /\ symbols = EmptyMap
    /\ frozen = {}
    /\ located = <<>>
    /\ lc = 0
    /\ p2_i = 0
    /\ memory = EmptyMap
    /\ listing = <<>>
    /\ written = FALSE
    /\ image = <<>>
    /\ macros = EmptyMap
    /\ in_macro = NoMacro
    /\ macro_body = <<>>
    /\ files = fs
    /\ include_stack = <<main>>
    /\ cur_file = main
    /\ frames = <<>>
    /\ main_args = [listing |-> listing_opt]
    /\ listed = FALSE
    /\ status = Running

DriverLines ==
    {Include("a"),
     Include("none"),
     Line("L", "RET", <<>>),
     Line("", "LMAR", <<Num(65536)>>),
     Line("", "FOO", <<>>),
     MacroLine("A", <<>>),
     Line("", ".WORD", <<Num(4660)>>)}

DriverFiles ==
    {(<<"main">> :> m) @@ (<<"a">> :> <<Line("L", "RET", <<>>)>>) :
        m \in SeqsUpTo(DriverLines, MaxLines)}

InitMain ==
    \E fs \in DriverFiles, l \in BOOLEAN :
        StartMain(fs, <<"main">>, EmptyMap, l)

NextMain == NextInc \/ WriteListing \/ ExitSuccess \/ ExitFailure

\* the interpreter runs main to its end
SpecMain == InitMain /\ [][NextMain]_vars /\ WF_vars(NextMain)

\* programs placed at the ends of the address space and outside it
EdgeLines ==
    {Line("", ".ORG", <<Num(-1)>>),
     Line("", ".ORG", <<Num(65535)>>),
     Line("", ".ORG", <<Num(65536)>>),
     Line("", ".ORG", <<Num(65534)>>),
     Line("", "RET", <<>>),
     Line("", ".BYTE", <<Num(-128)>>),
     Line("", "LMAR", <<Num(4660)>>)}

InitEdge ==
    \E source \in SeqsUpTo(EdgeLines, MaxLines) : Start(source, EmptyMap)

SpecEdge == InitEdge /\ [][Next]_vars

\* programs with lines whose mnemonic is not in the opcode table
UnknownLines ==
    {Line("", "FOO", <<>>),
     Line("L", "FOO", <<Reg(1)>>),
     Line("", "RET", <<>>),
     Line("L", "RET", <<>>),
     Line("", "LMAR", <<Sym("L")>>),
     Line("", "LMAR", <<Num(65536)>>),
     Line("", ".ORG", <<Num(300)>>)}

InitUnknown ==
    \E source \in SeqsUpTo(UnknownLines, MaxLines) : Start(source, EmptyMap)

SpecUnknown == InitUnknown /\ [][Next]_vars

\* programs that define the macro M with an empty body and a macro R with
\* one line, and reference the labels they write
EmptyMacroDefs ==
    <<MacroLine("M", <<>>), EndmLine,
      MacroLine("R", <<>>), Line("", "RET", <<>>), EndmLine>>

LabelLines ==
    {Line("L", "M", <<>>),
     Line("", "M", <<>>),
     Line("L", "R", <<>>),
     Line("T", "RET", <<>>),
     Line("T", "", <<>>),
     Line("", "LMAR", <<Sym("L")>>),
     Line("", "LMAR", <<Sym("T")>>)}

InitLabels ==
    \E tail \in SeqsUpTo(LabelLines, MaxLines) :
        Start(EmptyMacroDefs \o tail, EmptyMap)

SpecLabels == InitLabels /\ [][Next]_vars

\* programs of built-in macro lines, labels and .org
BuiltinLines ==
    {Line("", "LOADADDR", <<Reg(1), Num(5)>>),
     Line("L", "LOADADDR", <<Reg(3), Sym("T")>>),
     Line("", "JMP_L", <<Reg(2), Sym("T")>>),
     Line("L", "CALL_L", <<Reg(4), Sym("T")>>),
     Line("", "JMP_L", <<Reg(2)>>),
     Line("T", "RET", <<>>),
     Line("T", "", <<>>),
     Line("", ".ORG", <<Num(300)>>)}

InitBuiltin ==
    \E source \in SeqsUpTo(BuiltinLines, MaxLines) : Start(source, EmptyMap)

SpecBuiltin == InitBuiltin /\ [][Next]_vars

\* ------------------------------------------------------------- properties
\* Helpers of the properties below, stated on the source text (out) and on
\* what pass 2 emitted (listing), not on the operators of the passes.
Started == phase # "preprocess"
Encoding == phase \in {"pass2", "done"}

NamesSym(t, n) == t.k = "sym" /\ t.s = n

\* out[i] is .equ n, e
IsEquOf(sl, n) == sl.mn = ".EQU" /\ Len(sl.ops) >= 2 /\ NamesSym(sl.ops[1], n)

\* C1: Predefines are frozen: whatever .equ N, e / N = e lines the source
\* holds, the symbol table of pass 1 and pass 2 maps every predefine N to its
\* value v, and every LMAR, immediate or .byte operand that names N is
\* encoded with v.
C1_PredefinesFrozen ==
    Started =>
        /\ \A n \in DOMAIN predefines :
              n \in DOMAIN symbols /\ symbols[n] = predefines[n]
        /\ \A i \in DOMAIN listing :
              LET e == listing[i] IN
              \A n \in DOMAIN predefines :
                 /\ (e.sl.mn = "LMAR" /\ Len(e.sl.ops) = 1
                     /\ NamesSym(e.sl.ops[1], n) /\ ~e.sl.ops[1].h)
                    => e.data = <<46, (predefines[n] \div 256) % 256,
                                  predefines[n] % 256>>
                 /\ (e.sl.mn = "ADD" /\ Len(e.sl.ops) = 2
                     /\ NamesSym(e.sl.ops[2], n))
                    => e.data[3] = predefines[n] % 256
                 /\ (e.sl.mn = ".BYTE" /\ Len(e.sl.ops) = 1
                     /\ NamesSym(e.sl.ops[1], n) /\ ~e.sl.ops[1].h)
                    => e.data = <<predefines[n] % 256>>

\* C1 witness: an assembly ran to the end with predefine N, a .equ N, e of
\* another value in the source (taken by the preprocessor's own defines) and
\* an instruction that names N.
C1_Witness ==
    /\ phase = "done"
    /\ "N" \in DOMAIN predefines
    /\ \E i \in DOMAIN out :
          IsEquOf(out[i], "N") /\ out[i].ops[2].k = "num"
          /\ out[i].ops[2].v # predefines["N"]
    /\ pp_defines["N"] # predefines["N"]
    /\ \E i \in DOMAIN listing :
          listing[i].sl.mn = "LMAR" /\ NamesSym(listing[i].sl.ops[1], "N")

\* index in out of the k-th line that pass 1 puts on the located list
Locatable(sl) == sl.mn \notin {".ORG", ".EQU"}
OutIndex(k) ==
    CHOOSE i \in DOMAIN out :
        /\ Locatable(out[i])
        /\ Cardinality({j \in 1..i : Locatable(out[j])}) = k

RECURSIVE SumSizes(_, _, _)
SumSizes(lines, from, to) ==
    IF from > to THEN 0
    ELSE instruction_size(lines[from]) + SumSizes(lines, from + 1, to)

\* the last .org line before line j of out, 0 if none
LastOrg(j) ==
    IF \E i \in 1..(j - 1) : out[i].mn = ".ORG"
    THEN CHOOSE i \in 1..(j - 1) :
            out[i].mn = ".ORG" /\ \A m \in (i + 1)..(j - 1) : out[m].mn # ".ORG"
    ELSE 0

\* address of line j by the layout rule: the value of the last .org before
\* it (0 without one) plus the sizes of the lines in between
LaidOutAt(j) ==
    LET o == LastOrg(j) IN
    (IF o = 0 THEN 0 ELSE out[o].ops[1].v) + SumSizes(out, o + 1, j - 1)

\* line j defines label l, and the last .org before it has a literal operand
LabelLaidOut(j, l) ==
    /\ out[j].label = l
    /\ LastOrg(j) # 0 => (Len(out[LastOrg(j)].ops) >= 1
                          /\ out[LastOrg(j)].ops[1].k = "num"
                          /\ ~out[LastOrg(j)].ops[1].h)

\* C2: Forward references resolve: an LMAR or immediate operand that names
\* a label defined later in the source is encoded by pass 2 with the address
\* pass 1 bound to the label, the last .org value plus the pass-1 sizes of
\* the lines laid out since.
C2_ForwardReferenceResolves ==
    Encoding =>
        \A k \in DOMAIN listing :
            LET e == listing[k] IN
            \A j \in DOMAIN out :
               (/\ j > OutIndex(k)
                /\ out[j].label # ""
                /\ LabelLaidOut(j, out[j].label)
                /\ Len(e.sl.ops) >= 1)
               =>
               LET l == out[j].label
                   a == LaidOutAt(j)
               IN
               /\ (e.sl.mn = "LMAR" /\ Len(e.sl.ops) = 1
                   /\ NamesSym(e.sl.ops[1], l) /\ ~e.sl.ops[1].h)
                  => e.data = <<46, (a \div 256) % 256, a % 256>>
               /\ (e.sl.mn = "ADD" /\ Len(e.sl.ops) = 2
                   /\ NamesSym(e.sl.ops[2], l))
                  => e.data[3] = a % 256

\* name s has no binding when pass 1 reaches line i of out: it is no
\* predefine, no label up to line i and no .equ name before line i
UnboundAt(i, s) ==
    /\ s \notin DOMAIN predefines
    /\ \A j \in 1..i : out[j].label # s
    /\ \A j \in 1..(i - 1) : ~IsEquOf(out[j], s)

\* line i of out is .equ x, l with l a label defined later in the source
\* and x defined by this line only
IsDeferredEqu(i) ==
    /\ out[i].mn = ".EQU"
    /\ Len(out[i].ops) = 2
    /\ out[i].ops[1].k = "sym"
    /\ out[i].ops[2].k = "sym" /\ ~out[i].ops[2].h
    /\ UnboundAt(i, out[i].ops[2].s)
    /\ \E j \in (i + 1)..Len(out) : out[j].label = out[i].ops[2].s
    /\ out[i].ops[1].s \notin DOMAIN predefines
    /\ \A j \in DOMAIN out :
          (j # i => ~IsEquOf(out[j], out[i].ops[1].s))
          /\ out[j].label # out[i].ops[1].s
          /\ (out[j].label = out[i].ops[2].s =>
                 \A m \in DOMAIN out : ~IsEquOf(out[m], out[j].label))

\* C5: Deferred .equs are resolved before encoding: once pass 2 is in its
\* encoding loop, the name of every .equ whose expression is a label defined
\* later in the source is bound to that label's address.
C5_DeferredEquResolved ==
    Encoding =>
        \A i \in DOMAIN out :
            IsDeferredEqu(i) =>
                /\ out[i].ops[1].s \in DOMAIN symbols
                /\ symbols[out[i].ops[1].s] = symbols[out[i].ops[2].s]

\* C6: an assembly whose source holds a .org that pass 1 could not evaluate
\* never completes: no such program reaches the end of the driver.
C6_UnresolvedOrgFails ==
    phase = "done" =>
        \A i \in DOMAIN out :
            ~(/\ out[i].mn = ".ORG"
              /\ Len(out[i].ops) >= 1
              /\ out[i].ops[1].k = "sym"
              /\ UnboundAt(i, out[i].ops[1].s))

\* line j of out defines a label that is a predefine or the label of an
\* earlier line
DuplicateAt(j) ==
    /\ out[j].label # ""
    /\ \/ out[j].label \in DOMAIN predefines
       \/ \E i \in 1..(j - 1) : out[i].label = out[j].label

\* C7: pass 1 aborts on a label that is already bound as a label or as a
\* predefine: it never gets past such a line, it stops there with the
\* duplicate-label error, and nothing is returned, encoded or written.
C7_DuplicateLabelAborts ==
    Started =>
        \A j \in DOMAIN out :
            DuplicateAt(j) =>
                /\ p1_i <= j
                /\ phase \in {"pass1", "error"}
                /\ (phase = "error" /\ p1_i = j) => err = "DuplicateLabel"
                /\ p2_i = 0
                /\ memory = EmptyMap
                /\ listing = <<>>
                /\ ~written

\* C7 witness: pass 1 stopped with the duplicate-label error on a label that
\* names a predefine, after laying out at least one line.
C7_Witness ==
    /\ phase = "error"
    /\ err = "DuplicateLabel"
    /\ DuplicateAt(p1_i)
    /\ out[p1_i].label \in DOMAIN predefines
    /\ Len(located) >= 1

\* names bound by a label somewhere in the source
LabelNames == {out[i].label : i \in DOMAIN out} \ {""}

\* C8: once a non-predefined constant is bound, no later .equ / = of the
\* same name changes its value in the symbol table.
C8_ConstantKeepsValue ==
    [][\A n \in DOMAIN symbols :
          (n \notin DOMAIN predefines /\ n \notin LabelNames)
          => (n \in DOMAIN symbols' /\ symbols'[n] = symbols[n])]_vars

\* the source is two sections <<.org a1, i1, .org a2, i2>> whose pass-1
\* address ranges [a, a + size) do not meet
TwoDisjointSections ==
    /\ Len(src) = 4
    /\ src[1].mn = ".ORG" /\ src[3].mn = ".ORG"
    /\ src[1].ops[1].k = "num" /\ src[3].ops[1].k = "num"
    /\ LET a1 == src[1].ops[1].v
           a2 == src[3].ops[1].v
       IN \/ a1 + instruction_size(src[2]) <= a2
          \/ a2 + instruction_size(src[4]) <= a1

\* C3: Output bytes are independent of source order: for a program of
\* sections with pairwise disjoint pass-1 address ranges, the program with
\* the sections in the other order assembles to the same memory map.
C3_SectionOrderIrrelevant ==
    (phase = "done" /\ TwoDisjointSections) =>
        LET other == asm(<<src[3], src[4], src[1], src[2]>>, predefines) IN
        other.err = "" /\ other.memory = memory

IsRegTok(t) == t.k = "reg" /\ ~t.h
\* immediate operand text: a literal or a name, with or without '#'
IsImmTok(t) == t.k \in {"num", "sym"}
ImmValue(t) == IF t.k = "num" THEN t.v ELSE predefines[t.s]

IsEnc(sl, enc) == sl.mn \in DOMAIN OPCODES /\ OPCODES[sl.mn][2] = enc

\* bytes a, a+1, a+2 of the memory map
Holds3(a, b0, b1, b2) ==
    /\ {a, a + 1, a + 2} \subseteq DOMAIN memory
    /\ memory[a] = b0 /\ memory[a + 1] = b1 /\ memory[a + 2] = b2

OneRegister(ops) == Len(ops) = 1 /\ IsRegTok(ops[1]) /\ ops[1].v <= 15

\* C10: a 2reg mnemonic with the single operand Rn, n <= 15, emits exactly
\* two bytes, the opcode and n << 2; with any other operand count, a
\* non-register operand or a register above 15 it is never encoded: pass 2
\* stops on it with an error.
C10_Encode2reg ==
    /\ (Encoding /\ listing # <<>>) =>
        LET e == listing[Len(listing)] IN
        (IsEnc(e.sl, "2reg") /\ OneRegister(e.sl.ops)) =>
           /\ e.data = <<OPCODES[e.sl.mn][1], e.sl.ops[1].v * 4>>
           /\ memory[e.addr] = OPCODES[e.sl.mn][1]
           /\ memory[e.addr + 1] = e.sl.ops[1].v * 4
           /\ (e.addr + 2) \notin DOMAIN memory
    /\ \A i \in DOMAIN located :
          (IsEnc(located[i].sl, "2reg") /\ ~OneRegister(located[i].sl.ops))
          => /\ p2_i <= i
             /\ Len(listing) < i
             /\ ~written
             /\ phase = "error" =>
                   err \in {"OperandCount", "OperandSyntax", "RegisterRange"}

\* C10 witness: a 2reg instruction on R15 was encoded at a non-zero address
\* and the file was written.
C10_Witness ==
    /\ phase = "done"
    /\ listing # <<>>
    /\ LET e == listing[Len(listing)] IN
        /\ IsEnc(e.sl, "2reg")
        /\ e.sl.ops = <<Reg(15)>>
        /\ e.addr = 300
        /\ e.data[2] = 60

\* every operand of the line is a literal
Literals(sl) == \A i \in DOMAIN sl.ops : sl.ops[i].k = "num" /\ ~sl.ops[i].h

\* every byte of the memory map was stored for an entry of the listing
MemoryFromListing ==
    \A x \in DOMAIN memory :
        \E j \in DOMAIN listing :
            x >= listing[j].addr /\ x < listing[j].addr + Len(listing[j].data)

\* pass 2 never gets past located entry i and stops on it with error kind
StopsAt(i, kind) ==
    /\ p2_i <= i
    /\ Len(listing) < i
    /\ ~written
    /\ (phase = "error" /\ p2_i = i) => (err = kind /\ MemoryFromListing)

LmarInRange(sl) ==
    /\ sl.mn = "LMAR" /\ Len(sl.ops) = 1 /\ Literals(sl)
    /\ sl.ops[1].v >= 0 /\ sl.ops[1].v <= 65535

\* C11: when pass 2 has encoded LMAR expr at address pc, exactly three bytes
\* were emitted: the opcode at pc, (expr >> 8) & 0xFF at pc+1 and expr & 0xFF
\* at pc+2; an LMAR whose expression is outside [0, 0xFFFF] is never encoded:
\* pass 2 stops on it with the address-range error, with no byte stored for
\* it and no file written.
C11_EncodeLmar ==
    /\ (Encoding /\ listing # <<>>) =>
        LET e == listing[Len(listing)]
            v == e.sl.ops[1].v
        IN
        (e.sl.mn = "LMAR" /\ Len(e.sl.ops) = 1 /\ Literals(e.sl)) =>
           /\ LmarInRange(e.sl)
           /\ e.data = <<46, (v \div 256) % 256, v % 256>>
           /\ Holds3(e.addr, 46, (v \div 256) % 256, v % 256)
    /\ \A i \in DOMAIN located :
          LET sl == located[i].sl IN
          (sl.mn = "LMAR" /\ Len(sl.ops) = 1 /\ Literals(sl)
             /\ ~LmarInRange(sl))
          => StopsAt(i, "AddressRange")

\* C11 witness: after .org 300, LMAR 0x1234 was encoded at 300 as 2E 12 34
\* and pass 2 then stopped on LMAR -1.
C11_Witness ==
    /\ phase = "error"
    /\ err = "AddressRange"
    /\ Len(listing) = 1
    /\ listing[1].sl = Line("", "LMAR", <<Num(4660)>>)
    /\ listing[1].addr = 300
    /\ memory[300] = 46 /\ memory[301] = 18 /\ memory[302] = 52
    /\ located[2].sl = Line("", "LMAR", <<Num(-1)>>)

\* pass 1 has just laid out the line before p1_i, whose mnemonic is mn
JustLaidOut(mn) ==
    /\ phase = "pass1"
    /\ p1_i > 1
    /\ out[p1_i - 1].mn = mn

\* the last located entry is that line, and the location counter is its
\* address plus size
AdvancedBy(size) ==
    /\ located # <<>>
    /\ located[Len(located)].sl = out[p1_i - 1]
    /\ lc = located[Len(located)].addr + size

\* C12: when pass 2 has encoded .word e1, ..., en at address lc, it emitted
\* 2n bytes: for each i (0-based) the low byte of ei & 0xFFFF at lc+2i and its
\* high byte at lc+2i+1; and pass 1 advanced the location counter by 2n over
\* the line.
C12_EncodeWord ==
    /\ (Encoding /\ listing # <<>>) =>
        LET e == listing[Len(listing)]
            n == Len(e.sl.ops)
        IN
        (e.sl.mn = ".WORD" /\ Literals(e.sl)) =>
           /\ Len(e.data) = 2 * n
           /\ \A i \in 0..(n - 1) :
                 LET w == e.sl.ops[i + 1].v % 65536 IN
                 /\ memory[e.addr + 2 * i] = w % 256
                 /\ memory[e.addr + 2 * i + 1] = w \div 256
    /\ JustLaidOut(".WORD") => AdvancedBy(2 * Len(out[p1_i - 1].ops))

\* C12 witness: .word -2, 65537 was encoded at 300 as FE FF 01 00, the next
\* line was placed at 304 and the file was written.
C12_Witness ==
    /\ phase = "done"
    /\ Len(listing) = 2
    /\ listing[1].sl = Line("", ".WORD", <<Num(-2), Num(65537)>>)
    /\ listing[1].addr = 300
    /\ memory[300] = 254 /\ memory[301] = 255
    /\ memory[302] = 1 /\ memory[303] = 0
    /\ listing[2].addr = 304

ByteInRange(sl) ==
    \A i \in DOMAIN sl.ops : sl.ops[i].v >= -128 /\ sl.ops[i].v <= 255

\* C13: when pass 2 has encoded .byte e1, ..., en at address lc, it emitted
\* n bytes, ei & 0xFF at lc+i (0-based), and pass 1 advanced the location
\* counter by n over the line; a .byte with an operand outside [-128, 255] is
\* never encoded: pass 2 stops on it with the value-range error, with no byte
\* stored for it and no file written.
C13_EncodeByte ==
    /\ (Encoding /\ listing # <<>>) =>
        LET e == listing[Len(listing)]
            n == Len(e.sl.ops)
        IN
        (e.sl.mn = ".BYTE" /\ Literals(e.sl)) =>
           /\ ByteInRange(e.sl)
           /\ Len(e.data) = n
           /\ \A i \in 0..(n - 1) :
                 memory[e.addr + i] = e.sl.ops[i + 1].v % 256
    /\ JustLaidOut(".BYTE") => AdvancedBy(Len(out[p1_i - 1].ops))
    /\ \A i \in DOMAIN located :
          LET sl == located[i].sl IN
          (sl.mn = ".BYTE" /\ Literals(sl) /\ ~ByteInRange(sl))
          => StopsAt(i, "ValueRange")

\* C13 witness: .byte 255, -128, 7 was encoded at 300 as FF 80 07 and pass 2
\* then stopped on .byte 7, 256 placed at 303, storing nothing there.
C13_Witness ==
    /\ phase = "error"
    /\ err = "ValueRange"
    /\ Len(listing) = 1
    /\ listing[1].sl = Line("", ".BYTE", <<Num(255), Num(-128), Num(7)>>)
    /\ listing[1].addr = 300
    /\ memory[300] = 255 /\ memory[301] = 128 /\ memory[302] = 7
    /\ located[2].sl = Line("", ".BYTE", <<Num(7), Num(256)>>)
    /\ located[2].addr = 303
    /\ 303 \notin DOMAIN memory

IsResetvec(sl) == sl.mn = ".RESETVEC" /\ Len(sl.ops) = 1 /\ Literals(sl)
NotResetvec(sl) == sl.mn # ".RESETVEC"
NotResetvecEntry(e) == e.sl.mn # ".RESETVEC"

\* the reset vector bytes are those of address A
VectorIs(A) ==
    /\ {65532, 65533} \subseteq DOMAIN memory
    /\ memory[65532] = A % 256
    /\ memory[65533] = (A \div 256) % 256

\* C14: when pass 2 has processed .resetvec A, the memory map holds A & 0xFF
\* at 0xFFFC and (A >> 8) & 0xFF at 0xFFFD and no byte was emitted at the
\* line's own address; pass 1 leaves the location counter unchanged over the
\* line, so the other lines are located exactly as pass 1 locates them in the
\* program without its .resetvec lines; when pass 2 has finished, the vector
\* is that of the last .resetvec in source order.
C14_ResetVector ==
    /\ (Encoding /\ listing # <<>>) =>
        LET e == listing[Len(listing)] IN
        IsResetvec(e.sl) => (VectorIs(e.sl.ops[1].v) /\ e.data = <<>>)
    /\ JustLaidOut(".RESETVEC") => AdvancedBy(0)
    /\ phase \in {"merged", "pass2", "done"} =>
          SelectSeq(located, NotResetvecEntry)
            = pass1(SelectSeq(out, NotResetvec), predefines).located
    /\ (phase = "done" /\ \E i \in DOMAIN listing : IsResetvec(listing[i].sl))
        => LET last == CHOOSE i \in DOMAIN listing :
                          /\ IsResetvec(listing[i].sl)
                          /\ \A j \in DOMAIN listing :
                                IsResetvec(listing[j].sl) => j <= i
           IN VectorIs(listing[last].sl.ops[1].v)

\* C14 witness: pass 2 has finished .resetvec 0x200, RET, .resetvec 0x11234:
\* RET is at address 0 and the vector bytes are 34 12.
C14_Witness ==
    /\ phase = "pass2"
    /\ p2_i = 4
    /\ out = <<Line("", ".RESETVEC", <<Num(512)>>), Line("", "RET", <<>>),
               Line("", ".RESETVEC", <<Num(70196)>>)>>
    /\ listing[2].addr = 0
    /\ memory[0] = 62
    /\ memory[65532] = 52 /\ memory[65533] = 18

\* the last source line invokes a parameterless user macro, without label
EndsWithInvocation ==
    /\ src # <<>>
    /\ frames = <<>>
    /\ LET inv == src[Len(src)] IN
        /\ inv.label = "" /\ inv.ops = <<>>
        /\ inv.mn \in DOMAIN macros
        /\ macros[inv.mn].params = <<>>

\* the line invokes a user macro or a built-in
InvokesKnown(sl) ==
    sl.mn \in DOMAIN macros \cup {"LOADADDR", "JMP_L", "CALL_L"}

\* C16: a program that ends with the invocation of a user macro whose body
\* invokes another known macro (user macro or built-in) assembles exactly as
\* the program in which the body lines, inner invocation included, are
\* written at the call site: both succeed or both fail, and on success the
\* memory maps are equal.
C16_NestedInvocationExpanded ==
    (/\ phase \in {"done", "error"}
     /\ EndsWithInvocation
     /\ \E i \in DOMAIN macros[src[Len(src)].mn].body :
           InvokesKnown(macros[src[Len(src)].mn].body[i]))
    => LET body == macros[src[Len(src)].mn].body
           ref == asm(Front(src) \o body, predefines)
       IN
       /\ (phase = "done") <=> (ref.err = "")
       /\ phase = "done" => memory = ref.memory

\* the preprocessor is about to process line pp_i of the top-level text,
\* outside / inside a macro body
AtTopLine ==
    /\ phase = "preprocess"
    /\ frames = <<>>
    /\ pp_i <= Len(src)

\* C17: while a macro body is being collected, a .macro line is rejected:
\* the preprocessor stops on it with an error and the line is not added to
\* the body.
C17_NestedMacroRejected ==
    [][(AtTopLine /\ in_macro # NoMacro
          /\ src[pp_i].label = "" /\ src[pp_i].mn = ".MACRO")
       => (phase' = "error" /\ macro_body' = macro_body)]_vars

\* a macro body is being collected after the first n lines of the text
RECURSIVE Collecting(_, _)
Collecting(lines, n) ==
    IF n = 0 THEN FALSE
    ELSE IF Collecting(lines, n - 1)
         THEN ~(lines[n].label = "" /\ lines[n].mn = ".ENDM"
                  /\ lines[n].ops = <<>>)
         ELSE lines[n].label = "" /\ lines[n].mn = ".MACRO"

\* the text ends inside a macro body; the text has an .endm outside one
Unterminated(lines) == Collecting(lines, Len(lines))
StrayEndm(lines) ==
    \E n \in DOMAIN lines :
        lines[n].mn = ".ENDM" /\ ~Collecting(lines, n - 1)

PreprocessorErrors ==
    {"UnterminatedMacro", "MacroArity", "MacroName", "MalformedInclude",
     "CircularInclude", "CannotOpen", "BuiltinOperands"}

\* pass 2 has returned its memory map
MemoryMapProduced ==
    \/ phase = "pass2" /\ p2_i > Len(located)
    \/ phase = "done"

\* C18: a source that ends while a macro body is being collected never
\* leaves the preprocessor except by an error raised there, and a source with
\* an .endm outside any macro body never completes pass 2; in neither case
\* is a memory map produced or a file written.
C18_MacroBalance ==
    /\ Unterminated(src) =>
          /\ phase \in {"preprocess", "error"}
          /\ phase = "error" => err \in PreprocessorErrors
          /\ located = <<>> /\ memory = EmptyMap
          /\ ~MemoryMapProduced /\ ~written
          /\ (phase = "preprocess" /\ pp_i > Len(src)) => in_macro # NoMacro
    /\ StrayEndm(src) =>
          /\ ~MemoryMapProduced /\ ~written
          /\ \A k \in DOMAIN out : out[k].mn = ".ENDM" =>
                \A e \in DOMAIN listing : listing[e].sl.mn # ".ENDM"

\* C18 witness: the source .endm / .macro A / RET has a stray .endm and ends
\* inside the body of A; the preprocessor has raised the unterminated-macro
\* error at the end of the text.
C18_Witness ==
    /\ phase = "error"
    /\ err = "UnterminatedMacro"
    /\ src = <<EndmLine, MacroLine("A", <<>>), Line("", "RET", <<>>)>>
    /\ pp_i = 4
    /\ in_macro.name = "A"
    /\ macro_body = <<Line("", "RET", <<>>)>>
    /\ out = <<EndmLine>>

\* the argument that corresponds to an operand text of a macro body: the
\* argument of the parameter it names (as \param or bare word), itself
\* otherwise
Corresponding(t, params, args) ==
    IF t.k \in {"sym", "par"} /\ \E i \in DOMAIN params : params[i] = t.s
    THEN LET i == CHOOSE i \in DOMAIN params :
                     params[i] = t.s /\ \A j \in 1..(i - 1) : params[j] # t.s
         IN [args[i] EXCEPT !.h = t.h \/ args[i].h]
    ELSE t

\* C19: when the preprocessor processes an invocation of a user macro, a
\* number of arguments different from the number of parameters raises the
\* arity error and leaves out unchanged; with a matching count out grows by
\* the body lines in which every parameter occurrence is the corresponding
\* argument.
C19_MacroArguments ==
    [][(AtTopLine /\ in_macro = NoMacro /\ src[pp_i].mn \in DOMAIN macros)
       => LET inv == src[pp_i]
              params == macros[inv.mn].params
              body == macros[inv.mn].body
          IN
          IF Len(inv.ops) # Len(params)
          THEN phase' = "error" /\ err' = "MacroArity" /\ out' = out
          ELSE /\ phase' = "preprocess"
               /\ Len(out') = Len(out) + Len(body)
               /\ SubSeq(out', 1, Len(out)) = out
               /\ \A i \in DOMAIN body :
                     /\ out'[Len(out) + i].mn = body[i].mn
                     /\ out'[Len(out) + i].ops =
                          [j \in DOMAIN body[i].ops |->
                             Corresponding(body[i].ops[j], params, inv.ops)]
      ]_vars

\* line n of the text is processed outside any macro definition
TopLevel(n) ==
    /\ ~Collecting(src, n - 1)
    /\ ~(src[n].label = "" /\ src[n].mn = ".MACRO")

\* number of lines a top-level line puts into out, given the final macro
\* table (model texts define their macros before the first invocation)
ExpansionLen(sl) ==
    IF sl.mn \in DOMAIN macros THEN Len(macros[sl.mn].body)
    ELSE IF sl.mn = "LOADADDR" THEN 3
    ELSE IF sl.mn \in {"JMP_L", "CALL_L"} THEN 4
    ELSE 1

\* number of lines of out that come from the text before line n
RECURSIVE OutBefore(_)
OutBefore(n) ==
    IF n <= 1 THEN 0
    ELSE OutBefore(n - 1)
         + (IF TopLevel(n - 1) THEN ExpansionLen(src[n - 1]) ELSE 0)

\* line n invokes a user macro with a label, the right number of arguments
\* and a non-empty body
LabelledInvocation(n) ==
    /\ TopLevel(n)
    /\ src[n].label # ""
    /\ src[n].mn \in DOMAIN macros
    /\ Len(src[n].ops) = Len(macros[src[n].mn].params)
    /\ macros[src[n].mn].body # <<>>

PreprocessDone == p1_i >= 1
AfterPass1 ==
    \/ phase = "pass1" /\ p1_i > Len(out)
    \/ phase \in {"merged", "pass2", "done"}

\* address pass 1 gave to line k of out
LocatedAddr(k) ==
    located[Cardinality({j \in 1..k : Locatable(out[j])})].addr

Processing == {cur_file} \cup {frames[i].file : i \in DOMAIN frames}

\* the preprocessor is about to process an .include line with a quoted path
AtInclude ==
    /\ phase = "preprocess"
    /\ pp_i <= Len(CurLines)
    /\ in_macro = NoMacro
    /\ CurLines[pp_i].label = "" /\ CurLines[pp_i].mn = ".INCLUDE"
    /\ Len(CurLines[pp_i].ops) = 1 /\ CurLines[pp_i].ops[1].k = "str"

\* the file that line names, relative to the directory of the running file
IncludeTarget ==
    abspath(join(dirname(cur_file), SplitPath[CurLines[pp_i].ops[1].s]))

\* the lines of a file with the lines of its includes in their place
RECURSIVE Flattened(_)
Flattened(path) ==
    LET lines == files[path]
        part(i) ==
            IF lines[i].mn = ".INCLUDE"
            THEN Flattened(abspath(join(dirname(path),
                                        SplitPath[lines[i].ops[1].s])))
            ELSE <<lines[i]>>
        cat[i \in 0..Len(lines)] ==
            IF i = 0 THEN <<>> ELSE cat[i - 1] \o part(i)
    IN cat[Len(lines)]

\* C15: process_file terminates on every file system: it returns, with out
\* the flattened line sequence of the main file, or raises an error; an
\* .include raises the circular-include error exactly when the file it names
\* is still being processed, so a file included again after its processing
\* has ended is not reported.
C15_IncludeTerminates ==
    /\ <>(phase # "preprocess")
    /\ [](PreprocessDone => out = Flattened(<<"main">>))
    /\ [][AtInclude =>
            ((IncludeTarget \in Processing)
               <=> (phase' = "error" /\ err' = "CircularInclude"))]_vars

\* C15 witness: main includes a and b, which both include sub/c; the
\* preprocessor has returned with the line of sub/c twice in out.
C15_Witness ==
    /\ PreprocessDone
    /\ files[<<"main">>] = <<Include("a"), Include("b")>>
    /\ files[<<"a">>] = <<Include("sub/c")>>
    /\ files[<<"b">>] = <<Include("sub/c")>>
    /\ out = <<Line("", "RET", <<>>), Line("", "RET", <<>>)>>
    /\ include_stack = <<>>

\* line n of the text is a built-in with its two operands
IsBuiltinLine(n) ==
    /\ src[n].mn \in {"LOADADDR", "JMP_L", "CALL_L"}
    /\ Len(src[n].ops) = 2

\* index in located and listing of line k of out
LocatedIndex(k) == Cardinality({j \in 1..k : Locatable(out[j])})

\* address space a built-in takes
BuiltinSpan(mn) == IF mn = "LOADADDR" THEN 6 ELSE 8

AssemblerErrors ==
    PreprocessorErrors \cup
    {"DuplicateLabel", "OrgNeedsAddress", "EquNeedsValue", "UnknownMnemonic",
     "ExpressionSyntax", "UndefinedSymbol", "OperandCount", "OperandSyntax",
     "RegisterRange", "AddressRange", "ValueRange"}

\* preprocessing, pass 1 and pass 2 have all completed without error
StagesCompleted ==
    /\ err = ""
    /\ PreprocessDone
    /\ p1_i = Len(out) + 1
    /\ p2_i = Len(located) + 1
    /\ Len(listing) = Len(located)

\* C22: in the command-line driver the binary and the listing are written
\* only after preprocessing, pass 1 and pass 2 have all completed without
\* error; once a stage has raised an assembler error, neither write_binary
\* nor write_listing is ever invoked and the process exits with status 1.
C22_NoPartialOutput ==
    /\ []((written \/ listed) => StagesCompleted)
    /\ [](err \in AssemblerErrors =>
            (~written /\ ~listed /\ status \in {Running, 1}))
    /\ (err \in AssemblerErrors) ~> (status = 1)

\* C22 witness: run with -l on .word 0x1234 / LMAR 65536: pass 2 stored the
\* two bytes of the .word, raised the address-range error on the LMAR, and
\* the process has exited with status 1 without binary or listing.
C22_Witness ==
    /\ status = 1
    /\ err = "AddressRange"
    /\ main_args.listing
    /\ src = <<Line("", ".WORD", <<Num(4660)>>),
               Line("", "LMAR", <<Num(65536)>>)>>
    /\ memory = (0 :> 52) @@ (1 :> 18)
    /\ ~written /\ ~listed

\* the size stated for a located line, by encoding family
StatedSize(sl) ==
    IF sl.mn = ".BYTE" THEN Len(sl.ops)
    ELSE IF sl.mn = ".WORD" THEN 2 * Len(sl.ops)
    ELSE IF sl.mn \in {".RESETVEC", "__LOADADDR_HI__", ""} THEN 0
    ELSE IF IsEnc(sl, "3std") \/ IsEnc(sl, "lmar") THEN 3
    ELSE IF IsEnc(sl, "2reg") \/ IsEnc(sl, "2noreg") THEN 2
    ELSE IF IsEnc(sl, "cmp4") \/ IsEnc(sl, "djn4") THEN 4
    ELSE 0

\* C23: pass 1 advances the location counter over every located line by the
\* stated size of its family, and for every line pass 2 has encoded the
\* number of bytes written at its address is that size, so no byte of the
\* line is stored at or beyond its address plus that size.
C23_SizesAgree ==
    /\ (phase = "pass1" /\ p1_i > 1 /\ Locatable(out[p1_i - 1]))
         => AdvancedBy(StatedSize(out[p1_i - 1]))
    /\ \A i \in DOMAIN listing :
          LET e == listing[i] IN
          /\ Len(e.data) = StatedSize(e.sl)
          /\ (Encoding /\ i = Len(listing)) =>
                \A x \in DOMAIN memory :
                    ~(x >= e.addr + StatedSize(e.sl)
                        /\ x < e.addr + Len(e.data))

\* C24: the memory map of pass 2 maps 16-bit addresses to 8-bit values:
\* every key lies in [0, 0xFFFF] and every value in [0, 0xFF], wherever .org
\* has put the location counter.
C24_MemoryMapRange ==
    MemoryMapProduced =>
        \A a \in DOMAIN memory :
            /\ a >= 0 /\ a <= 65535
            /\ memory[a] >= 0 /\ memory[a] <= 255

\* the files whose processing has begun and not ended, outermost first
Chain ==
    [i \in 1..(Len(frames) + 1) |->
        IF i <= Len(frames) THEN frames[i].file ELSE cur_file]

\* C25: no path is on the include stack twice; while the preprocessor runs
\* the stack is the chain of files being processed; a process_file call
\* pushes its path on the stack of its caller and its normal return leaves
\* the stack as it was when the call began (for the outermost call: empty).
C25_IncludeStackDiscipline ==
    /\ [](\A i, j \in DOMAIN include_stack :
              include_stack[i] = include_stack[j] => i = j)
    /\ [](phase = "preprocess" => include_stack = Chain)
    /\ [](PreprocessDone => include_stack = <<>>)
    /\ [][(phase = "preprocess" /\ phase' = "preprocess")
            => /\ Len(frames') > Len(frames) =>
                     (/\ Front(include_stack') = include_stack
                      /\ SubSeq(Chain', 1, Len(Chain)) = Chain)
               /\ Len(frames') < Len(frames) =>
                     (/\ include_stack' = Front(include_stack)
                      /\ include_stack' = SubSeq(Chain, 1, Len(frames)))
               /\ Len(frames') = Len(frames) =>
                     include_stack' = include_stack]_vars

\* C25 witness: main includes a, a includes sub/c; both process_file calls
\* have returned and main is the only file on the stack again.
C25_Witness ==
    /\ phase = "preprocess"
    /\ files[<<"main">>] # <<>>
    /\ files[<<"main">>][1] = Include("a")
    /\ files[<<"a">>] = <<Include("sub/c")>>
    /\ files[<<"sub", "c">>] = <<Line("", "RET", <<>>)>>
    /\ frames = <<>>
    /\ pp_i = 2
    /\ out = <<Line("", "RET", <<>>)>>
    /\ include_stack = <<<<"main">>>>

\* the mnemonic of the line is neither a directive nor in the opcode table
UnknownMnemonic(sl) ==
    /\ sl.mn # ""
    /\ sl.mn \notin {".ORG", ".EQU", ".BYTE", ".WORD", ".RESETVEC",
                      "__LOADADDR_HI__"}
    /\ sl.mn \notin DOMAIN OPCODES

\* C26: pass 1 lays out a line with an unknown mnemonic without failing on
\* it and without moving the location counter; pass 2 never gets past such a
\* line and stops on it with the unknown-mnemonic error; no assembly whose
\* text holds such a line produces a memory map or a file.
C26_UnknownMnemonic ==
    /\ [][(/\ phase = "pass1" /\ p1_i <= Len(out)
            /\ UnknownMnemonic(out[p1_i])
            /\ out[p1_i].label \notin DOMAIN symbols)
           => /\ phase' = "pass1"
              /\ lc' = lc
              /\ located' = Append(located, [sl |-> out[p1_i], addr |-> lc])
          ]_vars
    /\ [](\A i \in DOMAIN located :
             UnknownMnemonic(located[i].sl) => StopsAt(i, "UnknownMnemonic"))
    /\ []((\E i \in DOMAIN out : UnknownMnemonic(out[i]))
            => (~MemoryMapProduced /\ ~written))

\* C26 witness: RET / L: FOO R1 / LMAR L: pass 1 put FOO and the LMAR both
\* at address 2, pass 2 encoded RET and stopped on FOO with the
\* unknown-mnemonic error.
C26_Witness ==
    /\ phase = "error"
    /\ err = "UnknownMnemonic"
    /\ src = <<Line("", "RET", <<>>), Line("L", "FOO", <<Reg(1)>>),
               Line("", "LMAR", <<Sym("L")>>)>>
    /\ located[2].addr = 2 /\ located[3].addr = 2
    /\ symbols["L"] = 2
    /\ p2_i = 2
    /\ memory = (0 :> 62) @@ (1 :> 0)

\* C27: once pass 1 has completed, and through pass 2, every label of the
\* text is bound to the address pass 1 had reached at the line that defines
\* it, and no text in which a name is both a label and a .equ / NAME = expr
\* constant gets through pass 1, whichever comes first.
C27_LabelStable ==
    AfterPass1 =>
        \A j \in DOMAIN out :
            out[j].label # "" =>
                /\ Locatable(out[j]) =>
                      /\ out[j].label \in DOMAIN symbols
                      /\ symbols[out[j].label] = LocatedAddr(j)
                /\ \A i \in DOMAIN out : ~IsEquOf(out[i], out[j].label)

\* labels written on the top-level lines of the text
WrittenLabels ==
    {src[n].label : n \in {m \in DOMAIN src : TopLevel(m)}} \ {""}

\* C28: once pass 1 has completed, every label written in the text is
\* bound, the label of an invocation of a macro with an empty body included,
\* and pass 2 never raises the undefined-symbol error on an instruction
\* whose operand is such a label.
C28_EveryLabelBound ==
    /\ AfterPass1 => \A l \in WrittenLabels : l \in DOMAIN symbols
    /\ (phase = "error" /\ err = "UndefinedSymbol" /\ p2_i >= 1) =>
          \A k \in DOMAIN located[p2_i].sl.ops :
              located[p2_i].sl.ops[k].s \notin WrittenLabels

\* C29: when process_file has exited with an error, the include stack is as
\* it was before the call (empty, for the call of the driver), and a second
\* process_file of the main file on the same Preprocessor does not raise the
\* circular-include error.
C29_StackRestoredOnError ==
    (phase = "error" /\ err \in PreprocessorErrors) =>
        /\ include_stack = <<>>
        /\ OpenFile([PPNow EXCEPT !.call = <<<<"main">>>>], files).err
             # "CircularInclude"

\* line n of the text invokes a user macro with the right number of
\* arguments
Invocation(n) ==
    /\ TopLevel(n)
    /\ src[n].mn \in DOMAIN macros
    /\ Len(src[n].ops) = Len(macros[src[n].mn].params)

\* a two-element sequence with its elements exchanged
Swap(q) == <<q[2], q[1]>>

\* C30: parameter substitution is simultaneous: in the expansion of an
\* invocation every operand of the body that names a parameter is the text
\* of that parameter's argument, untouched by the other parameters (M b, R1
\* for body ADD a, b gives ADD b, R1), and for a macro of two parameters the
\* expansion is the same when the parameters are declared in the other
\* order and the arguments are given accordingly.
C30_SimultaneousSubstitution ==
    PreprocessDone =>
        \A n \in DOMAIN src :
            Invocation(n) =>
                LET params == macros[src[n].mn].params
                    body == macros[src[n].mn].body
                    other == [macros EXCEPT ![src[n].mn].params = Swap(params)]
                IN
                /\ \A i \in DOMAIN body :
                      out[OutBefore(n) + i].ops =
                          [j \in DOMAIN body[i].ops |->
                              Corresponding(body[i].ops[j], params, src[n].ops)]
                /\ Len(params) = 2 =>
                      expand_macro([src[n] EXCEPT !.ops = Swap(src[n].ops)],
                                   other).lines
                        = SubSeq(out, OutBefore(n) + 1,
                                 OutBefore(n) + Len(body))

====










